---- MODULE Spec2Model ----
(***************************************************************************)
(* Model of the overlay query fabric of the gRPC-Communication repository: *)
(* the portal A and the workers B, C, D, E, their local stores, their      *)
(* SharedCache instances and the query handlers that evaluate, forward,    *)
(* merge and cache.                                                        *)
(*                                                                         *)
(* Text is modelled as a sequence of atoms.  An atom is a run of           *)
(* characters that holds no separator; the separators "," "\n" and "_"     *)
(* are atoms of their own, so that splitting and concatenation behave as   *)
(* they do on the bytes.                                                   *)
(***************************************************************************)
EXTENDS Integers, Sequences, FiniteSets, Bags, TLC

VARIABLES
    cBuild,     \* which of the two ProcessC sources runs as node C
    workload,   \* the queries the client of this run submits
    endpoint,      \* the node the client of this run talks to
    store,      \* DataStore::data_ of each worker: a set of entries, keys unique
    up,         \* whether the node's server is running
    chan,       \* grpc channel state of every client stub, chan[n][p]
    cache,      \* SharedCache::cache_map_ of each node: key -> CacheEntry
    now,        \* std::chrono::steady_clock, in ticks
    stack,      \* the chain of handleQuery activations of the query in flight
    response,   \* what the client received for its last query
    done,       \* per node: a record of its last completed handleQuery
    pre,        \* the situation in which the query in flight was submitted
    stored,     \* per node and cache key: the result whose bytes were last put
    misput,     \* whether some put so far stored other bytes or threw
    submitted,  \* number of client queries so far
    ticks,      \* number of clock advances so far
    writes,     \* number of store writes so far
    shmBuild,   \* which of the two shared memory sources is built
    mappable,   \* whether shm_open, ftruncate and mmap succeed on this host
    region,     \* the data area of each place a segment may live in
    mutex,      \* SharedHeader::mutex of each place: whether it is locked
    segments,   \* SharedMemoryManager::segments_ of each process: has the name
    inst,       \* the SharedCache instances under study
    live,       \* per place: the entries put and not removed or cleared since
    cacheOps,   \* number of get, put, remove, clear calls so far
    attaches,   \* number of SharedCache::create calls so far
    codec,      \* a result on its way through a node's cache encoding and back
    running_,         \* ProcessA::running_
    server_,          \* ProcessA::server_: built, serving, failed or stopped
    clients_,         \* ProcessA::clients_: the peers that have a stub
    ready,            \* the peers whose channel is READY or IDLE
    message_queue_,   \* ProcessA::message_queue_
    message_thread_,  \* where ProcessA::processMessages stands
    msg,              \* the local msg of processMessages, once popped
    outcomes,         \* what became of every popped message, in order
    received,         \* number of handleData calls so far
    inbound,          \* the last handleData call of a node and what it did
    timings_,         \* QueryTimer::timings_[query.id] of the node under study
    handling,         \* one handleQuery call, seen through its QueryTimer calls
    pool,             \* the threads of one node: what each is doing and has left to do
    locked,           \* per mutex of the node: the thread that holds it, or ""
    overlay,          \* the connections every node was configured with
    calls,            \* the handleQuery calls of one client query that have not returned
    cachedAt,         \* the nodes whose cache holds the result of a verb
    asked             \* number of client queries to the configured overlay so far

\* the state of the query fabric, the clock apart
fabricVars == <<cBuild, workload, endpoint, store, up, chan, cache, stack,
                response, done, pre, stored, misput, submitted, ticks, writes>>

\* the state of the shared region under study
cacheVars == <<shmBuild, mappable, region, mutex, segments, inst, live, cacheOps, attaches>>

\* the state of the encoding under study
codecVars == <<codec>>

\* the state of the portal's forwarding of data messages
queueVars == <<running_, server_, clients_, ready, message_queue_, message_thread_,
               msg, outcomes, received>>

\* the state of the handling of inbound data messages
dataVars == <<inbound>>

\* the state of the timing of one query at one node
timerVars == <<timings_, handling>>

\* the state of the threads of one node and of its mutexes
lockVars == <<pool, locked>>

\* the state of a fabric whose connections come from the configuration file
overlayVars == <<overlay, calls, cachedAt, asked>>

\* what the handlers of the fabric leave alone
besideFabric == <<cacheVars, codecVars, queueVars, dataVars, timerVars, lockVars, overlayVars>>

\* what the calls on the shared region leave alone
besideCache == <<fabricVars, codecVars, queueVars, dataVars, timerVars, lockVars, overlayVars>>

\* what the encodings leave alone
besideCodec == <<fabricVars, now, cacheVars, queueVars, dataVars, timerVars, lockVars, overlayVars>>

\* what the portal's forwarding of data messages leaves alone
besideQueue == <<fabricVars, now, cacheVars, codecVars, timerVars, lockVars, overlayVars>>

vars == <<fabricVars, now, cacheVars, codecVars, queueVars, dataVars, timerVars, lockVars, overlayVars>>

----------------------------------------------------------------------------
(* Bounds of the exploration *)

MaxQueries == 2
MaxTicks == 2
MaxWrites == 1
\* cells of the data area of a region (max_size)
RegionCap == 12
\* calls of get, put, remove, clear on the region
MaxCacheOps == 2
\* SharedCache::create calls
MaxAttach == 2
\* entries of a result put through the encodings
MaxEntries == 2
\* handleData calls
MaxData == 3
\* DataStore::store calls
MaxStores == 2

----------------------------------------------------------------------------
(* Program constants *)

\* ticks of steady_clock::time_since_epoch().count() per millisecond
TicksPerMs == 1000000
\* TTL passed to SharedCache::put by B, C, D, E
WorkerTtl == 5000
\* default ttl_ms of QueryCache::put at the portal
PortalTtl == 10000

Nodes == {"A", "B", "C", "D", "E"}
Workers == {"B", "C", "D", "E"}

\* ProcessInfo::connections of the reference overlay AB, BC, BD, CE, DE
connections(n) ==
    CASE n = "A" -> {"B"}
      [] n = "B" -> {"C", "D"}
      [] n = "C" -> {"E"}
      [] n = "D" -> {"E"}
      [] OTHER -> {}

----------------------------------------------------------------------------
(* Text helpers *)

RECURSIVE Concat(_)
Concat(ss) == IF ss = <<>> THEN <<>> ELSE Head(ss) \o Concat(Tail(ss))

\* index of the first occurrence of atom c in text t, 0 when absent
RECURSIVE IndexOf(_, _)
IndexOf(t, c) ==
    IF t = <<>> THEN 0
    ELSE IF Head(t) = c THEN 1
    ELSE LET r == IndexOf(Tail(t), c) IN IF r = 0 THEN 0 ELSE r + 1

\* ::toupper applied to every character
ToUpperAtom(a) ==
    CASE a = "bronx" -> "BRONX"
      [] a = "queens" -> "QUEENS"
      [] OTHER -> a

ToUpper(t) == [i \in 1..Len(t) |-> ToUpperAtom(t[i])]

\* the integers that appear as values, and std::stoi on their rendering
IntVals == 0..9

IsNumber(t) == Len(t) = 1 /\ \E i \in IntVals : ToString(i) = t[1]

stoi(t) == CHOOSE i \in IntVals : ToString(i) = t[1]

RECURSIVE SeqToBag(_)
SeqToBag(s) ==
    IF s = <<>> THEN EmptyBag ELSE SetToBag({Head(s)}) (+) SeqToBag(Tail(s))

RECURSIVE SetToSeqs(_)
\* every ordering of a finite set
SetToSeqs(S) ==
    IF S = {} THEN {<<>>}
    ELSE UNION {{<<x>> \o r : r \in SetToSeqs(S \ {x})} : x \in S}

----------------------------------------------------------------------------
(* Data model: CrashData, DataEntry, Query, QueryResult *)

NoCrash == [crash_date |-> "", crash_time |-> "", borough |-> "",
            persons_injured |-> 0, persons_killed |-> 0]

\* a DataEntry; kind names the alternative held by the variant
IntEntry(k, i) == [key |-> k, kind |-> "int", ival |-> i, sval |-> <<>>, crash |-> NoCrash]
StringEntry(k, s) == [key |-> k, kind |-> "string", ival |-> 0, sval |-> s, crash |-> NoCrash]
CrashEntry(k, c) == [key |-> k, kind |-> "crash", ival |-> 0, sval |-> <<>>, crash |-> c]

createSuccess(id, results, message) ==
    [query_id |-> id, success |-> TRUE, message |-> message, results |-> results]

createFailure(id, message) ==
    [query_id |-> id, success |-> FALSE, message |-> message, results |-> <<>>]

Crash(date, borough, killed) ==
    [crash_date |-> date, crash_time |-> "10:00", borough |-> borough,
     persons_injured |-> 0, persons_killed |-> killed]

\* the data set of scenario S2: every worker holds one entry under its own key
InitialStore ==
    [n \in Nodes |->
        CASE n = "B" -> {CrashEntry(<<"kB">>, Crash("01/15/2021", "BROOKLYN", 0))}
          [] n = "C" -> {CrashEntry(<<"kC">>, Crash("02/15/2021", "QUEENS", 0))}
          [] n = "D" -> {CrashEntry(<<"kD">>, Crash("03/15/2021", "BRONX", 1))}
          [] n = "E" -> {IntEntry(<<"kE">>, 5)}
          [] OTHER -> {}]

\* entries a later store() may add, and the stores it may add them to
WriteCatalog == {CrashEntry(<<"kX">>, Crash("04/15/2021", "QUEENS", 0))}

WriteNodes == {"B"}

\* the workers that may be killed
KillNodes == {"C", "E"}

\* the workloads: each is the set of queries the client of one run submits
Workloads ==
    {{[verb |-> "get_all", params |-> <<>>]},
     {[verb |-> "get_by_borough", params |-> <<<<"BRONX">>>>]},
     {[verb |-> "get_by_borough", params |-> <<<<"QUEENS">>>>]},
     {[verb |-> "get_by_borough", params |-> <<<<"bronx">>>>]},
     {[verb |-> "get_by_key", params |-> <<<<"kE">>>>]},
     {[verb |-> "get_by_key", params |-> <<<<"kE">>, <<"kB">>>>],
      [verb |-> "get_by_key", params |-> <<<<"kE", "_", "kB">>>>]},
     {[verb |-> "get_by_date_range", params |-> <<<<"13/40/2021">>, <<"12/31/2021">>>>]},
     {[verb |-> "get_by_date_range", params |-> <<<<"2021-01-01">>, <<"12/31/2021">>>>]},
     {[verb |-> "get_by_date_range", params |-> <<<<"01/01/2021">>, <<"12/31/2021">>>>]},
     {[verb |-> "get_by_time", params |-> <<<<"10:00">>>>]},
     {[verb |-> "get_by_moon_phase", params |-> <<<<"full">>>>]}}

----------------------------------------------------------------------------
(* DataStore: the evaluator.  order is the iteration order of data_. *)

\* the month, day and year matched by the regex (\d{1,2})/(\d{1,2})/(\d{4}),
\* or <<>> when the string does not match it
DateFields(a) ==
    CASE a = "01/01/2021" -> <<1, 1, 2021>>
      [] a = "01/15/2021" -> <<1, 15, 2021>>
      [] a = "02/15/2021" -> <<2, 15, 2021>>
      [] a = "03/15/2021" -> <<3, 15, 2021>>
      [] a = "04/15/2021" -> <<4, 15, 2021>>
      [] a = "05/15/2021" -> <<5, 15, 2021>>
      [] a = "12/31/2021" -> <<12, 31, 2021>>
      [] a = "13/40/2021" -> <<13, 40, 2021>>
      [] OTHER -> <<>>

dateToComparable(t) ==
    IF Len(t) = 1 /\ DateFields(t[1]) # <<>>
    THEN LET f == DateFields(t[1]) IN f[3] * 10000 + f[1] * 100 + f[2]
    ELSE 0

getByBorough(order, borough) ==
    LET borough_upper == ToUpper(borough)
        Match(e) == e.kind = "crash" /\ ToUpper(<<e.crash.borough>>) = borough_upper
        results == SelectSeq(order, Match)
    IN createSuccess(<<"borough_query">>, results,
                     <<"Found ", ToString(Len(results)), " crashes in ">> \o borough)

getByDateRange(order, start_date, end_date) ==
    LET start == dateToComparable(start_date)
        end == dateToComparable(end_date)
        Match(e) == /\ e.kind = "crash"
                    /\ dateToComparable(<<e.crash.crash_date>>) >= start
                    /\ dateToComparable(<<e.crash.crash_date>>) <= end
        results == SelectSeq(order, Match)
    IN IF start = 0 \/ end = 0
       THEN createFailure(<<"date_range_query">>, <<"Invalid date format. Use MM/DD/YYYY">>)
       ELSE createSuccess(<<"date_range_query">>, results,
                          <<"Found ", ToString(Len(results)), " crashes between ">>
                          \o start_date \o <<" and ">> \o end_date)

getCrashesWithFatalities(order, min_fatalities) ==
    LET Match(e) == e.kind = "crash" /\ e.crash.persons_killed >= min_fatalities
        results == SelectSeq(order, Match)
    IN createSuccess(<<"fatalities_query">>, results,
                     <<"Found ", ToString(Len(results)), " crashes with at least ",
                       ToString(min_fatalities), " fatalities">>)

getCrashesWithInjuries(order, min_injuries) ==
    LET Match(e) == e.kind = "crash" /\ e.crash.persons_injured >= min_injuries
        results == SelectSeq(order, Match)
    IN createSuccess(<<"injuries_query">>, results,
                     <<"Found ", ToString(Len(results)), " crashes with at least ",
                       ToString(min_injuries), " injuries">>)

\* the entries of data_ found for the keys of params, in param order
RECURSIVE FindKeys(_, _)
FindKeys(order, params) ==
    IF params = <<>> THEN <<>>
    ELSE LET IsKey(e) == e.key = Head(params)
         IN SelectSeq(order, IsKey) \o FindKeys(order, Tail(params))

\* a threshold parameter: std::stoi, keeping the default when it throws
Threshold(params) ==
    IF params # <<>> /\ IsNumber(params[1]) THEN stoi(params[1]) ELSE 1

processQuery(order, query) ==
    CASE query.verb = "get_all" ->
            createSuccess(query.id, order, <<"Success">>)
      [] query.verb = "get_by_key" ->
            createSuccess(query.id, FindKeys(order, query.params), <<"Success">>)
      [] query.verb = "get_by_prefix" ->
            IF query.params = <<>>
            THEN createFailure(query.id, <<"No prefix provided">>)
            ELSE LET prefix == query.params[1]
                     Match(e) == /\ Len(e.key) >= Len(prefix)
                                 /\ SubSeq(e.key, 1, Len(prefix)) = prefix
                 IN createSuccess(query.id, SelectSeq(order, Match), <<"Success">>)
      [] query.verb = "get_by_borough" ->
            IF query.params = <<>>
            THEN createFailure(query.id, <<"No borough specified">>)
            ELSE getByBorough(order, query.params[1])
      [] query.verb = "get_by_date_range" ->
            IF Len(query.params) < 2
            THEN createFailure(query.id, <<"Date range requires start and end dates">>)
            ELSE getByDateRange(order, query.params[1], query.params[2])
      [] query.verb = "get_crashes_with_injuries" ->
            getCrashesWithInjuries(order, Threshold(query.params))
      [] query.verb = "get_crashes_with_fatalities" ->
            getCrashesWithFatalities(order, Threshold(query.params))
      [] OTHER ->
            createFailure(query.id, <<"Unknown query: ", query.verb>>)

----------------------------------------------------------------------------
(* The wire: DataServiceImpl::convertToGrpc and the parse in queryData *)

\* a CrashData value crosses the wire as a string_value
convertToGrpc(e) ==
    IF e.kind = "crash"
    THEN StringEntry(e.key,
            <<"Date: ", e.crash.crash_date, ",", " Time: ", e.crash.crash_time, ",",
              " Borough: ", e.crash.borough, ",", " Killed: ",
              ToString(e.crash.persons_killed)>>)
    ELSE e

\* the QueryResult that DataServiceClient::queryData builds from an OK status
queryDataOk(res) ==
    [res EXCEPT !.results = [i \in 1..Len(res.results) |-> convertToGrpc(res.results[i])]]

\* the QueryResult that queryData builds from a failed status
queryDataFailed(query) == createFailure(query.id, <<"RPC failed: ">>)

----------------------------------------------------------------------------
(* Cache encodings *)

\* the text written after "<key>," for one entry by the workers
EncodeValue(e) ==
    CASE e.kind = "int" -> <<"int", ",", ToString(e.ival)>>
      [] e.kind = "string" -> <<"string", ",">> \o e.sval
      [] OTHER -> <<"string", ",", "CrashData:">> \o e.key

\* one line per entry: <key>,<type>,<value>\n
RECURSIVE EncodeLines(_)
EncodeLines(results) ==
    IF results = <<>> THEN <<>>
    ELSE Head(results).key \o <<",">> \o EncodeValue(Head(results)) \o <<"\n">>
         \o EncodeLines(Tail(results))

\* std::getline(iss, line) repeated until it fails
RECURSIVE SplitLines(_)
SplitLines(t) ==
    IF t = <<>> THEN <<>>
    ELSE LET i == IndexOf(t, "\n")
         IN IF i = 0 THEN <<t>>
            ELSE <<SubSeq(t, 1, i - 1)>> \o SplitLines(SubSeq(t, i + 1, Len(t)))

\* the three getline calls on one line: <<key, type_str, value_str>>, or <<>>
\* when one of them fails and the line is skipped
ParseLine(line) ==
    LET i == IndexOf(line, ",")
        rest1 == SubSeq(line, i + 1, Len(line))
        j == IndexOf(rest1, ",")
        rest2 == SubSeq(rest1, j + 1, Len(rest1))
    IN IF line = <<>> \/ i = 0 \/ rest1 = <<>> \/ j = 0 \/ rest2 = <<>> THEN <<>>
       ELSE <<SubSeq(line, 1, i - 1), SubSeq(rest1, 1, j - 1), rest2>>

\* whether building the entry throws (std::stoi on a non-number)
FieldsThrow(f) == f # <<>> /\ f[2] = <<"int">> /\ ~IsNumber(f[3])

FieldsToEntry(f) ==
    IF f[2] = <<"int">> THEN IntEntry(f[1], stoi(f[3])) ELSE StringEntry(f[1], f[3])

RECURSIVE LinesToEntries(_)
LinesToEntries(lines) ==
    IF lines = <<>> THEN <<>>
    ELSE LET f == ParseLine(Head(lines))
         IN (IF f = <<>> THEN <<>> ELSE <<FieldsToEntry(f)>>)
            \o LinesToEntries(Tail(lines))

\* the hit path of B, C, D, E: the entries decoded from the cached bytes
DecodeLines(data) ==
    LET lines == SplitLines(data)
    IN [threw |-> \E i \in 1..Len(lines) : FieldsThrow(ParseLine(lines[i])),
        results |-> LinesToEntries(
                       SelectSeq(lines, LAMBDA l : ~FieldsThrow(ParseLine(l))))]

\* QueryCache::put of the portal: <success>,<message>,<count>[,<key>,<type>,<value>]*
RECURSIVE EncodeHeaderEntries(_)
EncodeHeaderEntries(results) ==
    IF results = <<>> THEN <<>>
    ELSE LET e == Head(results)
         IN <<",">> \o e.key \o <<",">>
            \o (CASE e.kind = "int" -> <<"int", ",", ToString(e.ival)>>
                  [] e.kind = "string" -> <<"string", ",">> \o e.sval
                  [] OTHER -> <<"unknown", ",">>)
            \o EncodeHeaderEntries(Tail(results))

EncodeHeader(result) ==
    <<(IF result.success THEN "true" ELSE "false"), ",">> \o result.message
    \o <<",", ToString(Len(result.results))>> \o EncodeHeaderEntries(result.results)

\* std::getline(iss, token, ',') repeated
RECURSIVE SplitCommas(_)
SplitCommas(t) ==
    IF t = <<>> THEN <<>>
    ELSE LET i == IndexOf(t, ",")
         IN IF i = 0 THEN <<t>>
            ELSE <<SubSeq(t, 1, i - 1)>> \o SplitCommas(SubSeq(t, i + 1, Len(t)))

\* the token a getline leaves in its string: empty once the stream is exhausted
Token(tokens, i) == IF i <= Len(tokens) THEN tokens[i] ELSE <<>>

\* QueryCache::get of the portal; query_id is the key the cache was asked for
DecodeHeader(data, query_id) ==
    LET tokens == SplitCommas(data)
        count_str == Token(tokens, 3)
        count == IF IsNumber(count_str) THEN stoi(count_str) ELSE 0
        Fields(i) == <<Token(tokens, 3 * i + 1), Token(tokens, 3 * i + 2),
                       Token(tokens, 3 * i + 3)>>
    IN [threw |-> \/ ~IsNumber(count_str)
                  \/ \E i \in 1..count : FieldsThrow(Fields(i)),
        success |-> Token(tokens, 1) = <<"true">>,
        message |-> Token(tokens, 2),
        query_id |-> query_id,
        results |-> [i \in 1..count |->
                        IF FieldsThrow(Fields(i)) THEN StringEntry(<<>>, <<>>)
                        ELSE FieldsToEntry(Fields(i))]]

----------------------------------------------------------------------------
(* SharedCache *)

\* a get that takes a ttl of 0 for a lifetime of no ticks
SharedCacheGetExpiring(cache_map, key, t) ==
    IF key \in DOMAIN cache_map /\ t <= cache_map[key].timestamp + cache_map[key].ttl
    THEN [hit |-> TRUE, data |-> cache_map[key].data]
    ELSE [hit |-> FALSE, data |-> <<>>]

\* SharedCache::get: [hit, data]
SharedCacheGet(cache_map, key, t) ==
    IF key \in DOMAIN cache_map
    THEN LET entry == cache_map[key]
         IN IF entry.ttl > 0 /\ t > entry.timestamp + entry.ttl
            THEN [hit |-> FALSE, data |-> <<>>]
            ELSE [hit |-> TRUE, data |-> entry.data]
    ELSE [hit |-> FALSE, data |-> <<>>]

\* a get that restarts the lifetime of the entry it returns
SharedCacheAfterGetRefreshing(cache_map, key, t) ==
    IF SharedCacheGet(cache_map, key, t).hit
    THEN [cache_map EXCEPT ![key].timestamp = t]
    ELSE cache_map

\* SharedCache::get: the map after the call.  The method is const: it copies
\* the payload out on a hit and returns false on an expired entry, and
\* neither erases nor rewrites anything.
SharedCacheAfterGet(cache_map, key, t) == cache_map

\* SharedCache::put: the map after the call
SharedCachePut(cache_map, key, data, ttl_ms, t) ==
    [k \in DOMAIN cache_map \cup {key} |->
        IF k = key THEN [data |-> data, timestamp |-> t, ttl |-> ttl_ms]
        ELSE cache_map[k]]

\* SharedCache::remove: the map after the call
SharedCacheRemove(cache_map, key) ==
    IF DOMAIN cache_map \subseteq {key} THEN <<>>
    ELSE [k \in DOMAIN cache_map \ {key} |-> cache_map[k]]

----------------------------------------------------------------------------
(* The region of a SharedCache: SharedMemorySegment and the image in it.   *)
(* The image is a sequence of cells; a length field, a timestamp, a ttl    *)
(* and a character each take one cell.                                     *)

\* the two sources of the shared memory library in the repository
ShmBuilds == {"shared_memory/shared_memory.cpp", "shared_memory.cpp"}

ZeroImage == [c \in 1..RegionCap |-> 0]

\* SharedCache::serializeToMemory: the buffer, for one iteration order of cache_map_
RECURSIVE SerializeEntries(_, _)
SerializeEntries(cache_map, order) ==
    IF order = <<>> THEN <<>>
    ELSE LET key == Head(order)
             entry == cache_map[key]
         IN <<Len(key)>> \o key \o <<Len(entry.data)>> \o entry.data
            \o <<entry.timestamp, entry.ttl>>
            \o SerializeEntries(cache_map, Tail(order))

SerializeBuffer(cache_map, order) == <<Len(order)>> \o SerializeEntries(cache_map, order)

\* SharedMemorySegment::write at offset 0: the cells after the written ones stay
SegmentWrite(image, buffer) ==
    [c \in 1..Len(image) |-> IF c <= Len(buffer) THEN buffer[c] ELSE image[c]]

\* the image that serializeToMemory leaves in the region
SerializeToMemory(build, image, buffer) ==
    IF Len(buffer) <= RegionCap THEN SegmentWrite(image, buffer)
    ELSE IF build = "shared_memory/shared_memory.cpp"
         THEN SegmentWrite(image, SubSeq(buffer, 1, RegionCap))
         ELSE image

\* the loop of SharedCache::deserializeFromMemory from offset pos, with todo
\* entries still to read
RECURSIVE DeserializeEntries(_, _, _, _)
DeserializeEntries(buffer, pos, todo, cache_map) ==
    IF todo = 0 \/ pos + 1 > Len(buffer) THEN cache_map
    ELSE LET key_len == buffer[pos + 1]
             pos1 == pos + 1
         IN IF pos1 + key_len > Len(buffer) THEN cache_map
            ELSE LET key == SubSeq(buffer, pos1 + 1, pos1 + key_len)
                     pos2 == pos1 + key_len
                 IN IF pos2 + 1 > Len(buffer) THEN cache_map
                    ELSE LET val_len == buffer[pos2 + 1]
                             pos3 == pos2 + 1
                         IN IF pos3 + val_len > Len(buffer) THEN cache_map
                            ELSE LET val == SubSeq(buffer, pos3 + 1, pos3 + val_len)
                                     pos4 == pos3 + val_len
                                 IN IF pos4 + 2 > Len(buffer) THEN cache_map
                                    ELSE DeserializeEntries(buffer, pos4 + 2, todo - 1,
                                            [k \in DOMAIN cache_map \cup {key} |->
                                                IF k = key
                                                THEN [data |-> val,
                                                      timestamp |-> buffer[pos4 + 1],
                                                      ttl |-> buffer[pos4 + 2]]
                                                ELSE cache_map[k]])

\* SharedCache::deserializeFromMemory: cache_map_ read from the image
DeserializeFromMemory(image) == DeserializeEntries(image, 1, image[1], <<>>)

\* what malloc'ed memory may hold when deserializeFromMemory reads it: zeros,
\* or cells that happen to parse as one entry
UninitializedImages ==
    {ZeroImage, SegmentWrite(ZeroImage, <<1, 1, 2, 1, 7, 0, 0>>)}

----------------------------------------------------------------------------
(* The handlers: the parts of handleQuery that differ between the nodes *)

\* the two sources of ProcessC in the repository
CBuilds == {"part_007", "process_c"}

RECURSIVE JoinParams(_)
\* cache_key += "_" + param, for every param
JoinParams(params) ==
    IF params = <<>> THEN <<>>
    ELSE <<"_">> \o Head(params) \o JoinParams(Tail(params))

CacheKey(n, build, query) ==
    CASE n = "A" -> <<query.verb>> \o JoinParams(query.params)
      [] n = "C" /\ build = "process_c" -> <<"query_">> \o query.id
      [] OTHER -> <<"query_", query.verb>> \o JoinParams(query.params)

shouldForwardQuery(n, build, query) ==
    IF n = "C" /\ build = "process_c"
    THEN query.verb \in {"get_by_prefix", "get_by_key"}
    ELSE query.verb \in {"get_by_street", "get_by_key", "get_by_prefix",
                         "get_by_date_range", "get_crashes_with_injuries",
                         "get_crashes_with_fatalities", "get_by_time"}

\* whether handleQuery of node n enters its fan-out loop for the query
Forwards(n, build, query) ==
    CASE n = "A" -> TRUE
      [] n = "E" -> FALSE
      [] n = "C" /\ build = "process_c" ->
            query.verb = "get_all" \/ shouldForwardQuery(n, build, query)
      [] OTHER ->
            /\ query.verb # "get_by_borough"
            /\ (query.verb = "get_all" \/ shouldForwardQuery(n, build, query))

\* the borough a worker compares the first parameter with
OwnBorough(n) ==
    CASE n = "B" -> <<"BROOKLYN">>
      [] n = "C" -> <<"QUEENS">>
      [] n = "D" -> <<"BRONX">>
      [] OTHER -> <<"STATEN ISLAND">>

\* the local evaluation step of handleQuery
LocalEval(n, build, order, query) ==
    CASE n = "A" -> createSuccess(query.id, <<>>, <<>>)
      [] n = "B" ->
            IF /\ query.verb = "get_by_borough"
               /\ query.params # <<>>
               /\ query.params[1] = OwnBorough(n)
            THEN getByBorough(order, OwnBorough(n))
            ELSE processQuery(order, query)
      [] n = "E" ->
            IF query.verb = "get_by_borough"
            THEN LET borough == IF query.params = <<>> THEN <<>> ELSE query.params[1]
                 IN IF \/ borough = <<"STATEN ISLAND">>
                       \/ borough \notin {<<"BRONX">>, <<"BROOKLYN">>, <<"QUEENS">>}
                    THEN getByBorough(order, borough)
                    ELSE createSuccess(query.id, <<>>,
                                       <<"No matching borough data requested">>)
            ELSE processQuery(order, query)
      [] n = "C" /\ build = "process_c" -> processQuery(order, query)
      [] OTHER ->
            IF query.verb = "get_by_borough"
            THEN IF query.params # <<>> /\ query.params[1] = OwnBorough(n)
                 THEN getByBorough(order, OwnBorough(n))
                 ELSE createSuccess(query.id, <<>>,
                                    <<"No ", OwnBorough(n)[1], " data requested">>)
            ELSE processQuery(order, query)

RECURSIVE ConcatResults(_)
\* the entries of the downstream results, in the order they were collected
ConcatResults(rs) ==
    IF rs = <<>> THEN <<>> ELSE Head(rs).results \o ConcatResults(Tail(rs))

\* a merge that leaves the local entries out
MergeWithoutLocal(n, build, query, forwarded, local_result, downstream_results) ==
    [local_result EXCEPT !.results = ConcatResults(downstream_results)]

\* the result handleQuery returns on a miss, after the fan-out
Merge(n, build, query, forwarded, local_result, downstream_results) ==
    CASE n = "A" ->
            [query_id |-> query.id, success |-> TRUE,
             message |-> <<"Combined results from ", ToString(Len(downstream_results)),
                           " sources", " (",
                           ToString(Len(ConcatResults(downstream_results))),
                           " total entries)">>,
             results |-> ConcatResults(downstream_results)]
      [] n = "C" /\ build = "process_c" ->
            [local_result EXCEPT
                !.results = local_result.results \o ConcatResults(downstream_results)]
      [] OTHER ->
            IF forwarded
            THEN [local_result EXCEPT
                    !.results = local_result.results \o ConcatResults(downstream_results),
                    !.message = <<"Combined results from Process ", n, " and ",
                                  ToString(Len(downstream_results)),
                                  " downstream processes">>]
            ELSE local_result

\* a cache that is written whatever the success flag of the result
CachesAlways(n, build, result) == TRUE

\* whether handleQuery stores the result in the cache
Caches(n, build, result) ==
    CASE n = "A" -> TRUE
      [] n = "C" /\ build = "process_c" -> result.success /\ result.results # <<>>
      [] OTHER -> result.success

\* the bytes handleQuery means to put, and the TTL it passes
CachePayload(n, result) == IF n = "A" THEN EncodeHeader(result) ELSE EncodeLines(result.results)

CacheTtl(n) == IF n = "A" THEN PortalTtl ELSE WorkerTtl

\* The portal and E build the byte vector from the iterators of two different
\* temporaries, std::vector<uint8_t>(oss.str().begin(), oss.str().end()).
\* The behaviour is undefined: the vector holds the intended bytes, other
\* bytes, or its constructor throws std::length_error.
PutOutcomes(n) == IF n \in {"A", "E"} THEN {"intact", "garbage", "throw"} ELSE {"intact"}

GarbageData == <<"\\x7f">>

\* the result a hit returns: [threw, result]
HitResult(n, query, key, data) ==
    IF n = "A"
    THEN LET d == DecodeHeader(data, key)
         IN [threw |-> d.threw,
             result |-> [query_id |-> d.query_id, success |-> d.success,
                         message |-> <<"From cache: ">> \o d.message,
                         results |-> d.results]]
    ELSE LET d == DecodeLines(data)
         IN [threw |-> d.threw,
             result |-> [query_id |-> query.id, success |-> TRUE,
                         message |-> <<"From cache">>, results |-> d.results]]

----------------------------------------------------------------------------
(* State machine *)

\* clock advances, in ticks of the steady clock: as many ticks as the number
\* the workers pass as TTL
TickSteps == {WorkerTtl}

NoQuery == [id |-> <<>>, verb |-> "", params |-> <<>>]
NoResult == createFailure(<<>>, <<>>)
NoResponse == [valid |-> FALSE, ok |-> FALSE, node |-> "", query |-> NoQuery,
               result |-> NoResult, at |-> 0]
NoDone == [valid |-> FALSE, query |-> NoQuery, key |-> <<>>, hit |-> FALSE,
           threw |-> FALSE, forwarded |-> FALSE, local |-> NoResult, sent |-> <<>>,
           received |-> <<>>, result |-> NoResult, put |-> FALSE, began |-> 0,
           ended |-> 0, before |-> <<>>]
NoPre == [cachesEmpty |-> FALSE, down |-> {}, initialStore |-> FALSE, at |-> 0,
          prev |-> NoResponse, writes |-> 0, sameStore |-> FALSE]

Frame(n, query) ==
    [node |-> n, query |-> query, pc |-> "enter", key |-> <<>>, local_result |-> NoResult,
     forwarded |-> FALSE, pending |-> <<>>, downstream_results |-> <<>>,
     received |-> <<>>, sent |-> <<>>, began |-> 0, before |-> <<>>]

\* DataServiceClient::isConnected: the channel is READY or IDLE
isConnected(n, p) == chan[n][p] \in {"READY", "IDLE"}

Top == stack[Len(stack)]
Below == SubSeq(stack, 1, Len(stack) - 1)

\* the processes that may attach to the region, and the places a segment
\* may live in: the shm object of the name, or memory private to a process
Procs == {"p1", "p2"}
Places == {"shm"} \cup Procs
Insts == {"i1", "i2"}
\* the first instance lives in the first process, the second in either
ProcsOf(i) == IF i = "i1" THEN {"p1"} ELSE Procs

NoCall == [kind |-> "", key |-> <<>>, data |-> <<>>, ttl |-> 0]
NoReturn == [ok |-> FALSE, data |-> <<>>]
NoLast == [kind |-> "", key |-> <<>>, ttl |-> 0, at |-> 0, overflow |-> FALSE,
           ret |-> NoReturn, refRet |-> NoReturn,
           mapKept |-> TRUE, imageKept |-> TRUE]
\* state is "none" (not created), "null" (create returned nullptr), "idle",
\* or "in" (inside get, put, remove or clear, holding the lock)
NoInst == [state |-> "none", proc |-> "", place |-> "", cache_map |-> <<>>,
           call |-> NoCall, last |-> NoLast, ref |-> <<>>, eternal |-> <<>>]

NoCodec == [pc |-> "none", node |-> "", input |-> NoResult, bytes |-> <<>>,
            threw |-> FALSE, output |-> NoResult]

\* timings_ holds no TimingInfo for the query id
NoTimingInfo ==
    [present |-> FALSE, process_id |-> "", start_time |-> 0,
     operation_times |-> <<>>, downstream_timings |-> <<>>]

\* no handleQuery call under study
NoHandling ==
    [state |-> "idle", shape |-> "", node |-> "", path |-> "", peers |-> <<>>,
     script |-> <<>>, began |-> 0, order |-> <<>>, adds |-> <<>>, timing_data |-> <<>>,
     nth |-> 0]

TimerAtRest ==
    /\ timings_ = NoTimingInfo
    /\ handling = NoHandling

\* the threads of one node: two threads of the server's pool, each handling
\* one query, and one thread that writes to the node's DataStore
HandlerThreads == {"h1", "h2"}
WriterThread == "w"
Threads == HandlerThreads \cup {WriterThread}

\* DataStore::mutex_, SharedCache::local_mutex_, the mutex in the header of
\* the cache's segment, and QueryTimer::mutex_ of the node
Mutexes == {"store", "cache", "segment", "timer"}

\* a thread that has not been given anything to do
NoThread ==
    [state |-> "idle", id |-> 0, path |-> "", verb |-> "", script |-> <<>>,
     inside |-> "", stores |-> 0, waiting |-> {}]

LockAtRest ==
    /\ pool = [th \in Threads |-> NoThread]
    /\ locked = [mu \in Mutexes |-> ""]

\* the connections of the configuration the repository describes
Shipped == [n \in Nodes |-> connections(n)]

OverlayAtRest ==
    /\ overlay = Shipped
    /\ calls = <<>>
    /\ cachedAt = {}
    /\ asked = 0

\* a default-constructed MessageQueue::Message
NoMessage == [source |-> "", destination |-> "", data |-> <<>>, nth |-> 0]

\* no data message handled so far
NoInbound ==
    [node |-> "", source |-> "", destination |-> "", data |-> <<>>,
     local |-> FALSE, sends |-> <<>>]

DataAtRest == inbound = NoInbound

\* the portal as its constructor leaves it: running_(false), no stub, an empty
\* queue, and the message thread about to evaluate its loop condition
QueueAtRest ==
    /\ running_ = FALSE
    /\ server_ = "built"
    /\ clients_ = {}
    /\ ready = connections("A")
    /\ message_queue_ = <<>>
    /\ message_thread_ = "test"
    /\ msg = NoMessage
    /\ outcomes = <<>>
    /\ received = 0

\* no process has created a cache on the region yet; a new shm object reads
\* as zeros
RegionAtRest ==
    /\ region = [pl \in Places |-> ZeroImage]
    /\ mutex = [pl \in Places |-> FALSE]
    /\ segments = [p \in Procs |-> FALSE]
    /\ inst = [i \in Insts |-> NoInst]
    /\ live = [pl \in Places |-> <<>>]
    /\ cacheOps = 0
    /\ attaches = 0

Init ==
    /\ cBuild \in CBuilds
    /\ workload \in Workloads
    /\ endpoint \in Nodes
    /\ store = InitialStore
    /\ up = [n \in Nodes |-> TRUE]
    /\ chan = [n \in Nodes |-> [p \in connections(n) |-> "IDLE"]]
    /\ cache = [n \in Nodes |-> <<>>]
    /\ now = 0
    /\ stack = <<>>
    /\ response = NoResponse
    /\ done = [n \in Nodes |-> NoDone]
    /\ pre = NoPre
    /\ stored = [n \in Nodes |-> <<>>]
    /\ misput = FALSE
    /\ submitted = 0
    /\ ticks = 0
    /\ writes = 0
    /\ shmBuild = "shared_memory/shared_memory.cpp"
    /\ mappable = TRUE
    /\ RegionAtRest
    /\ codec = NoCodec
    /\ QueueAtRest
    /\ DataAtRest
    /\ TimerAtRest
    /\ LockAtRest
    /\ OverlayAtRest

\* handleQuery of the top activation returns: the result, or the exception,
\* reaches the caller's queryData, or the client
Return(ok, result) ==
    LET callee == Top
        r == IF ok THEN queryDataOk(result) ELSE queryDataFailed(callee.query)
    IN IF Below = <<>>
       THEN /\ stack' = <<>>
            /\ response' = [valid |-> TRUE, ok |-> ok, node |-> callee.node,
                            query |-> callee.query, result |-> r, at |-> now]
            /\ chan' = chan
       ELSE LET caller == Below[Len(Below)]
            IN /\ stack' = [Below EXCEPT ![Len(Below)] =
                             [caller EXCEPT
                                !.received = Append(@, r),
                                !.downstream_results =
                                    IF r.success THEN Append(@, r) ELSE @]]
               /\ chan' = [chan EXCEPT ![caller.node][callee.node] = "READY"]
               /\ response' = response

\* the client sends a query to its node, which is running
Submit(n, q) ==
    /\ stack = <<>>
    /\ submitted < MaxQueries
    /\ up[n]
    /\ stack' = <<Frame(n, [id |-> <<"q", ToString(submitted + 1)>>,
                            verb |-> q.verb, params |-> q.params])>>
    /\ submitted' = submitted + 1
    /\ pre' = [cachesEmpty |-> \A m \in Nodes : cache[m] = <<>>,
               down |-> {m \in Nodes : ~up[m]},
               initialStore |-> store = InitialStore,
               at |-> now,
               prev |-> response,
               writes |-> writes,
               sameStore |-> writes = pre.writes]
    /\ response' = NoResponse
    /\ done' = [m \in Nodes |-> NoDone]
    /\ UNCHANGED besideFabric
    /\ UNCHANGED <<cBuild, workload, endpoint, store, up, chan, cache, now, stored, misput,
                   ticks, writes>>

\* handleQuery up to the return of the hit path
HandleHit ==
    /\ stack # <<>>
    /\ Top.pc = "enter"
    /\ LET n == Top.node
           key == CacheKey(n, cBuild, Top.query)
           got == SharedCacheGet(cache[n], key, now)
           h == HitResult(n, Top.query, key, got.data)
       IN /\ got.hit
          /\ done' = [done EXCEPT ![n] =
                        [valid |-> TRUE, query |-> Top.query, key |-> key, hit |-> TRUE,
                         threw |-> h.threw, forwarded |-> FALSE, local |-> NoResult,
                         sent |-> <<>>, received |-> <<>>, result |-> h.result,
                         put |-> FALSE, began |-> now, ended |-> now,
                         before |-> cache[n]]]
          /\ cache' = [cache EXCEPT ![n] = SharedCacheAfterGet(@, key, now)]
          /\ Return(~h.threw, h.result)
    /\ UNCHANGED besideFabric
    /\ UNCHANGED <<cBuild, workload, endpoint, store, up, now, pre, stored, misput,
                   submitted, ticks, writes>>

\* handleQuery on a miss, up to the fan-out loop: the local evaluation
HandleMiss ==
    /\ stack # <<>>
    /\ Top.pc = "enter"
    /\ LET n == Top.node
           key == CacheKey(n, cBuild, Top.query)
           fwd == Forwards(n, cBuild, Top.query)
       IN /\ ~SharedCacheGet(cache[n], key, now).hit
          /\ \E order \in SetToSeqs(store[n]) :
             \E clients \in SetToSeqs(connections(n)) :
                stack' = [stack EXCEPT ![Len(stack)] =
                    [Top EXCEPT
                        !.pc = "fanout",
                        !.key = key,
                        !.local_result = LocalEval(n, cBuild, order, Top.query),
                        !.forwarded = fwd,
                        !.pending = IF fwd THEN clients ELSE <<>>,
                        !.began = now,
                        !.before = cache[n]]]
          /\ cache' = [cache EXCEPT ![n] = SharedCacheAfterGet(@, key, now)]
    /\ UNCHANGED besideFabric
    /\ UNCHANGED <<cBuild, workload, endpoint, store, up, chan, now, response, done, pre,
                   stored, misput, submitted, ticks, writes>>

\* the fan-out loop reaches a connected peer that is running: queryData is called
QueryPeer ==
    /\ stack # <<>>
    /\ Top.pc = "fanout"
    /\ Top.pending # <<>>
    /\ LET p == Head(Top.pending)
       IN /\ isConnected(Top.node, p)
          /\ up[p]
          /\ stack' = Append([stack EXCEPT ![Len(stack)] =
                                [Top EXCEPT !.pending = Tail(@), !.sent = Append(@, p)]],
                             Frame(p, Top.query))
    /\ UNCHANGED besideFabric
    /\ UNCHANGED <<cBuild, workload, endpoint, store, up, chan, cache, now, response, done, pre,
                   stored, misput, submitted, ticks, writes>>

\* the fan-out loop reaches a connected peer that is not running: the RPC fails
PeerUnavailable ==
    /\ stack # <<>>
    /\ Top.pc = "fanout"
    /\ Top.pending # <<>>
    /\ LET p == Head(Top.pending)
       IN /\ isConnected(Top.node, p)
          /\ ~up[p]
          /\ stack' = [stack EXCEPT ![Len(stack)] =
                        [Top EXCEPT !.pending = Tail(@), !.sent = Append(@, p),
                                    !.received = Append(@, queryDataFailed(Top.query))]]
          /\ chan' = [chan EXCEPT ![Top.node][p] = "TRANSIENT_FAILURE"]
    /\ UNCHANGED besideFabric
    /\ UNCHANGED <<cBuild, workload, endpoint, store, up, cache, now, response, done, pre,
                   stored, misput, submitted, ticks, writes>>

\* the fan-out loop reaches a peer whose channel is not connected: no RPC
SkipPeer ==
    /\ stack # <<>>
    /\ Top.pc = "fanout"
    /\ Top.pending # <<>>
    /\ ~isConnected(Top.node, Head(Top.pending))
    /\ stack' = [stack EXCEPT ![Len(stack)] = [Top EXCEPT !.pending = Tail(@)]]
    /\ UNCHANGED besideFabric
    /\ UNCHANGED <<cBuild, workload, endpoint, store, up, chan, cache, now, response, done, pre,
                   stored, misput, submitted, ticks, writes>>

\* handleQuery after the fan-out loop: merge, cache store, return
Finish ==
    /\ stack # <<>>
    /\ Top.pc = "fanout"
    /\ Top.pending = <<>>
    /\ LET n == Top.node
           result == Merge(n, cBuild, Top.query, Top.forwarded, Top.local_result,
                           Top.downstream_results)
           puts == Caches(n, cBuild, result)
       IN \E outcome \in (IF puts THEN PutOutcomes(n) ELSE {"intact"}) :
            LET data == IF outcome = "garbage" THEN GarbageData
                        ELSE CachePayload(n, result)
                stored_now == puts /\ outcome # "throw"
            IN /\ cache' = IF stored_now
                           THEN [cache EXCEPT ![n] =
                                   SharedCachePut(@, Top.key, data, CacheTtl(n), now)]
                           ELSE cache
               /\ done' = [done EXCEPT ![n] =
                            [valid |-> TRUE, query |-> Top.query, key |-> Top.key,
                             hit |-> FALSE, threw |-> outcome = "throw",
                             forwarded |-> Top.forwarded, local |-> Top.local_result,
                             sent |-> Top.sent, received |-> Top.received,
                             result |-> result, put |-> stored_now, began |-> Top.began,
                             ended |-> now, before |-> Top.before]]
               /\ stored' = IF stored_now
                            THEN [stored EXCEPT ![n] =
                                    [k \in DOMAIN @ \cup {Top.key} |->
                                        IF k = Top.key THEN result ELSE @[k]]]
                            ELSE stored
               /\ misput' = (misput \/ outcome # "intact")
               /\ Return(outcome # "throw", result)
    /\ UNCHANGED besideFabric
    /\ UNCHANGED <<cBuild, workload, endpoint, store, up, now, pre, submitted, ticks, writes>>

\* time passes between two requests of the client
Tick(d) ==
    /\ stack = <<>>
    /\ submitted > 0
    /\ submitted < MaxQueries
    /\ ticks < MaxTicks
    /\ now' = now + d
    /\ ticks' = ticks + 1
    /\ UNCHANGED besideFabric
    /\ UNCHANGED <<cBuild, workload, endpoint, store, up, chan, cache, stack, response, done, pre,
                   stored, misput, submitted, writes>>

\* DataStore::store: upsert by key, of an entry the store does not hold as such
StoreWrite(n, e) ==
    /\ stack = <<>>
    /\ submitted < MaxQueries
    /\ writes < MaxWrites
    /\ e \notin store[n]
    /\ store' = [store EXCEPT ![n] = {x \in @ : x.key # e.key} \cup {e}]
    /\ writes' = writes + 1
    /\ UNCHANGED besideFabric
    /\ UNCHANGED <<cBuild, workload, endpoint, up, chan, cache, now, stack, response, done, pre,
                   stored, misput, submitted, ticks>>

\* a worker process is killed before the client's first request; the
\* channels to it, never used so far, stay IDLE
Kill(n) ==
    /\ stack = <<>>
    /\ submitted = 0
    /\ \A m \in Nodes : up[m]
    /\ up' = [up EXCEPT ![n] = FALSE]
    /\ UNCHANGED besideFabric
    /\ UNCHANGED <<cBuild, workload, endpoint, store, chan, cache, now, stack, response, done,
                   pre, stored, misput, submitted, ticks, writes>>

Next ==
    \/ \E q \in workload : Submit(endpoint, q)
    \/ HandleHit
    \/ HandleMiss
    \/ QueryPeer
    \/ PeerUnavailable
    \/ SkipPeer
    \/ Finish
    \/ \E d \in TickSteps : Tick(d)
    \/ \E n \in WriteNodes, e \in WriteCatalog : StoreWrite(n, e)
    \/ \E n \in KillNodes : Kill(n)

Spec == Init /\ [][Next]_vars

----------------------------------------------------------------------------
(* State machine of one named region: processes create SharedCache          *)
(* instances on it, call get, put, remove and clear, and stop.              *)

CacheKeys == {<<1>>, <<2>>}

\* the puts of the exploration: both keys, a payload of one and of two cells,
\* with and without expiry
CachePuts ==
    {[kind |-> "put", key |-> <<1>>, data |-> <<7>>, ttl |-> 0],
     [kind |-> "put", key |-> <<1>>, data |-> <<8, 9>>, ttl |-> WorkerTtl],
     [kind |-> "put", key |-> <<2>>, data |-> <<7>>, ttl |-> WorkerTtl],
     [kind |-> "put", key |-> <<2>>, data |-> <<8, 9>>, ttl |-> 0]}

CacheCalls ==
    {[kind |-> "get", key |-> k, data |-> <<>>, ttl |-> 0] : k \in CacheKeys}
    \cup CachePuts
    \cup {[kind |-> "remove", key |-> k, data |-> <<>>, ttl |-> 0] : k \in CacheKeys}
    \cup {[kind |-> "clear", key |-> <<>>, data |-> <<>>, ttl |-> 0]}

MapSet(m, k, v) == [x \in DOMAIN m \cup {k} |-> IF x = k THEN v ELSE m[x]]

MapDrop(m, k) == IF DOMAIN m \subseteq {k} THEN <<>> ELSE [x \in DOMAIN m \ {k} |-> m[x]]

\* the map after a call, and what the call returns
CallMap(cache_map, c, t) ==
    CASE c.kind = "put" -> SharedCachePut(cache_map, c.key, c.data, c.ttl, t)
      [] c.kind = "remove" -> SharedCacheRemove(cache_map, c.key)
      [] c.kind = "clear" -> <<>>
      [] OTHER -> SharedCacheAfterGet(cache_map, c.key, t)

CallReturn(cache_map, c, t) ==
    CASE c.kind = "get" -> LET got == SharedCacheGet(cache_map, c.key, t)
                           IN [ok |-> got.hit, data |-> got.data]
      [] c.kind = "remove" -> [ok |-> c.key \in DOMAIN cache_map, data |-> <<>>]
      [] OTHER -> [ok |-> TRUE, data |-> <<>>]

\* whether the call reaches serializeToMemory
CallSerializes(cache_map, c) ==
    c.kind \in {"put", "clear"} \/ (c.kind = "remove" /\ c.key \in DOMAIN cache_map)

\* the fabric before any request
FabricAtRest ==
    /\ cBuild = "part_007"
    /\ workload = {}
    /\ endpoint = "A"
    /\ store = InitialStore
    /\ up = [n \in Nodes |-> TRUE]
    /\ chan = [n \in Nodes |-> [p \in connections(n) |-> "IDLE"]]
    /\ cache = [n \in Nodes |-> <<>>]
    /\ stack = <<>>
    /\ response = NoResponse
    /\ done = [n \in Nodes |-> NoDone]
    /\ pre = NoPre
    /\ stored = [n \in Nodes |-> <<>>]
    /\ misput = FALSE
    /\ submitted = 0
    /\ ticks = 0
    /\ writes = 0

CacheInit ==
    /\ shmBuild \in ShmBuilds
    /\ mappable \in BOOLEAN
    /\ RegionAtRest
    /\ now = 0
    /\ codec = NoCodec
    /\ QueueAtRest
    /\ DataAtRest
    /\ TimerAtRest
    /\ LockAtRest
    /\ OverlayAtRest
    /\ FabricAtRest

\* SharedCache::create in process p.  The manager hands out the segment the
\* process already holds; otherwise a SharedMemorySegment is constructed,
\* which initialises the mutex in the header anew, and on failure the
\* segment is malloc'ed memory (shared_memory/shared_memory.cpp) or create
\* returns nullptr (shared_memory.cpp).  The SharedCache constructor then
\* reads cache_map_ from the image, without taking the lock.
CacheCreate(i, p) ==
    /\ inst[i].state = "none"
    /\ attaches < MaxAttach
    /\ attaches' = attaches + 1
    /\ LET pl == IF mappable THEN "shm" ELSE p
           failed == ~segments[p] /\ ~mappable
       IN IF failed /\ shmBuild = "shared_memory.cpp"
          THEN /\ inst' = [inst EXCEPT ![i] = [NoInst EXCEPT !.state = "null", !.proc = p]]
               /\ UNCHANGED <<region, mutex, segments>>
          ELSE \E image \in (IF failed THEN UninitializedImages ELSE {region[pl]}) :
                  /\ region' = [region EXCEPT ![pl] = image]
                  /\ mutex' = IF segments[p] THEN mutex ELSE [mutex EXCEPT ![pl] = FALSE]
                  /\ segments' = [segments EXCEPT ![p] = TRUE]
                  /\ inst' = [inst EXCEPT ![i] =
                                [NoInst EXCEPT !.state = "idle", !.proc = p, !.place = pl,
                                               !.cache_map = DeserializeFromMemory(image)]]
    /\ UNCHANGED <<shmBuild, mappable, live, cacheOps, now>>
    /\ UNCHANGED besideCache

\* get, put, remove or clear up to segment_->lock() having returned
CacheEnter(i, c) ==
    /\ inst[i].state = "idle"
    /\ cacheOps < MaxCacheOps
    /\ ~mutex[inst[i].place]
    /\ mutex' = [mutex EXCEPT ![inst[i].place] = TRUE]
    /\ inst' = [inst EXCEPT ![i].state = "in", ![i].call = c]
    /\ cacheOps' = cacheOps + 1
    /\ UNCHANGED <<shmBuild, mappable, region, segments, live, attaches, now>>
    /\ UNCHANGED besideCache

\* the rest of the call: the work on cache_map_, serializeToMemory, unlock
CacheLeave(i) ==
    /\ inst[i].state = "in"
    /\ LET me == inst[i]
           pl == me.place
           c == me.call
           map1 == CallMap(me.cache_map, c, now)
           ret == CallReturn(me.cache_map, c, now)
       IN \E order \in SetToSeqs(DOMAIN map1) :
            LET buffer == SerializeBuffer(map1, order)
                image1 == IF CallSerializes(me.cache_map, c)
                          THEN SerializeToMemory(shmBuild, region[pl], buffer)
                          ELSE region[pl]
            IN /\ region' = [region EXCEPT ![pl] = image1]
               /\ inst' = [inst EXCEPT ![i] =
                    [me EXCEPT
                       !.state = "idle",
                       !.call = NoCall,
                       !.cache_map = map1,
                       !.ref = CallMap(@, c, now),
                       !.eternal = CASE c.kind = "put" /\ c.ttl = 0 -> MapSet(@, c.key, c.data)
                                     [] c.kind = "put" /\ c.ttl # 0 -> MapDrop(@, c.key)
                                     [] c.kind = "remove" -> MapDrop(@, c.key)
                                     [] c.kind = "clear" -> <<>>
                                     [] OTHER -> @,
                       !.last = [kind |-> c.kind, key |-> c.key, ttl |-> c.ttl, at |-> now,
                                 overflow |-> CallSerializes(me.cache_map, c)
                                              /\ Len(buffer) > RegionCap,
                                 ret |-> ret, refRet |-> CallReturn(me.ref, c, now),
                                 mapKept |-> map1 = me.cache_map,
                                 imageKept |-> image1 = region[pl]]]]
               /\ live' = [live EXCEPT ![pl] =
                    CASE c.kind = "put" ->
                            MapSet(@, c.key, [data |-> c.data, timestamp |-> now, ttl |-> c.ttl])
                      [] c.kind = "remove" /\ ret.ok -> MapDrop(@, c.key)
                      [] c.kind = "clear" -> <<>>
                      [] OTHER -> @]
    /\ mutex' = [mutex EXCEPT ![inst[i].place] = FALSE]
    /\ UNCHANGED <<shmBuild, mappable, segments, cacheOps, attaches, now>>
    /\ UNCHANGED besideCache

\* process p stops, none of its instances being inside a call: its caches
\* and its segment are destroyed.  ~SharedMemorySegment destroys the mutex,
\* which changes nothing in the header, and unmaps or frees the memory; the
\* shm object stays.
CacheExit(p) ==
    /\ \E i \in Insts : inst[i].state # "none" /\ inst[i].proc = p
    /\ \A i \in Insts : inst[i].proc = p => inst[i].state # "in"
    /\ inst' = [i \in Insts |-> IF inst[i].proc = p THEN NoInst ELSE inst[i]]
    /\ segments' = [segments EXCEPT ![p] = FALSE]
    /\ live' = [live EXCEPT ![p] = <<>>]
    /\ UNCHANGED <<shmBuild, mappable, region, mutex, cacheOps, attaches, now>>
    /\ UNCHANGED besideCache

\* time passes between two calls, after the first, up to the longest TTL of
\* the program
CacheTick(d) ==
    /\ now < PortalTtl
    /\ cacheOps > 0
    /\ \E i \in Insts : inst[i].state = "idle"
    /\ \A i \in Insts : inst[i].state # "in"
    /\ now' = now + d
    /\ UNCHANGED cacheVars
    /\ UNCHANGED besideCache

CacheNext ==
    \/ \E i \in Insts : \E p \in ProcsOf(i) : CacheCreate(i, p)
    \/ \E i \in Insts, c \in CacheCalls : CacheEnter(i, c)
    \/ \E i \in Insts : CacheLeave(i)
    \/ \E p \in Procs : CacheExit(p)
    \/ \E d \in TickSteps : CacheTick(d)

CacheSpec == CacheInit /\ [][CacheNext]_vars

----------------------------------------------------------------------------
(* State machine of the cache encodings: a successful result is encoded    *)
(* as a node writes it to its cache, and decoded as the node's hit path    *)
(* reads it.                                                               *)

\* the nodes whose encodings are exercised: the portal and a worker
CodecNodes == {"A", "B"}

\* string contents: empty, plain, holding a comma, holding a newline
CodecStrings == {<<>>, <<"x">>, <<"a", ",", "b">>, <<"a", "\n", "b">>}

CodecEntries ==
    {IntEntry(<<"k1">>, i) : i \in {0, 5}}
    \cup {StringEntry(<<"k2">>, t) : t \in CodecStrings}

CodecMessages == {<<"Success">>, <<"Found 1 crashes", ",", " 0 skipped">>}

\* successful results of up to MaxEntries entries
CodecResults ==
    {createSuccess(<<"q1">>, rs, m) :
        rs \in UNION {[1..len -> CodecEntries] : len \in 0..MaxEntries},
        m \in CodecMessages}

CodecInit ==
    /\ codec \in {[NoCodec EXCEPT !.pc = "result", !.input = r] : r \in CodecResults}
    /\ shmBuild = "shared_memory/shared_memory.cpp"
    /\ mappable = TRUE
    /\ RegionAtRest
    /\ now = 0
    /\ FabricAtRest
    /\ QueueAtRest
    /\ DataAtRest
    /\ TimerAtRest
    /\ LockAtRest
    /\ OverlayAtRest

\* the bytes node n means to put for the result
CodecEncode(n) ==
    /\ codec.pc = "result"
    /\ codec' = [codec EXCEPT !.pc = "bytes", !.node = n,
                              !.bytes = CachePayload(n, codec.input)]
    /\ UNCHANGED besideCodec

\* the hit path of the node on these bytes
CodecDecode ==
    /\ codec.pc = "bytes"
    /\ LET h == HitResult(codec.node, [NoQuery EXCEPT !.id = codec.input.query_id],
                          codec.input.query_id, codec.bytes)
       IN codec' = [codec EXCEPT !.pc = "decoded", !.threw = h.threw, !.output = h.result]
    /\ UNCHANGED besideCodec

CodecNext ==
    \/ \E n \in CodecNodes : CodecEncode(n)
    \/ CodecDecode

CodecSpec == CodecInit /\ [][CodecNext]_vars

----------------------------------------------------------------------------
(* The portal's forwarding of data messages: ProcessA's constructor, start,
   stop, handleData and the message thread running processMessages *)

\* the destinations a data message may name: the portal, its peer, a node
\* the portal has no stub for
Destinations == {"A"} \cup connections("A") \cup {"E"}

\* MessageQueue::Message; nth numbers the handleData calls, to tell messages apart
Message(source, destination, data, nth) ==
    [source |-> source, destination |-> destination, data |-> data, nth |-> nth]

QueueInit ==
    /\ QueueAtRest
    /\ DataAtRest
    /\ TimerAtRest
    /\ LockAtRest
    /\ OverlayAtRest
    /\ shmBuild = "shared_memory/shared_memory.cpp"
    /\ mappable = TRUE
    /\ RegionAtRest
    /\ now = 0
    /\ FabricAtRest
    /\ codec = NoCodec

\* ProcessA::start, called once by main: the stubs are made, the server is
\* started, and only when that succeeded running_ becomes true
Start ==
    /\ server_ = "built"
    /\ ~running_
    /\ clients_' = connections("A")
    /\ \E started \in BOOLEAN :
          IF started
          THEN server_' = "serving" /\ running_' = TRUE
          ELSE server_' = "failed" /\ UNCHANGED running_
    /\ UNCHANGED <<ready, message_queue_, message_thread_, msg, outcomes, received, inbound>>
    /\ UNCHANGED besideQueue

\* ProcessA::stop
Stop ==
    /\ running_
    /\ running_' = FALSE
    /\ server_' = "stopped"
    /\ clients_' = {}
    /\ UNCHANGED <<ready, message_queue_, message_thread_, msg, outcomes, received, inbound>>
    /\ UNCHANGED besideQueue

\* a portal handler that forwards inline, as the handlers of the other nodes do
HandleDataInline(source, destination, data) ==
    /\ server_ = "serving"
    /\ received < MaxData
    /\ received' = received + 1
    /\ inbound' = [node |-> "A", source |-> source, destination |-> destination,
                   data |-> data, local |-> destination = "A",
                   sends |-> IF destination # "A" /\ destination \in clients_ \cap ready
                             THEN <<Message(source, destination, data, received + 1)>>
                             ELSE <<>>]
    /\ UNCHANGED <<running_, server_, clients_, ready, message_queue_, message_thread_,
                   msg, outcomes>>
    /\ UNCHANGED besideQueue

\* ProcessA::handleData, called by the server for an inbound data message
HandleData(source, destination, data) ==
    /\ server_ = "serving"
    /\ received < MaxData
    /\ received' = received + 1
    /\ message_queue_' =
          IF destination = "A"
          THEN message_queue_
          ELSE Append(message_queue_, Message(source, destination, data, received + 1))
    /\ inbound' = [node |-> "A", source |-> source, destination |-> destination,
                   data |-> data, local |-> destination = "A", sends |-> <<>>]
    /\ UNCHANGED <<running_, server_, clients_, ready, message_thread_, msg, outcomes>>
    /\ UNCHANGED besideQueue

\* the channel to peer p changes state
ChannelChange(p) ==
    /\ server_ \in {"built", "serving"}
    /\ ready' = IF p \in ready THEN ready \ {p} ELSE ready \cup {p}
    /\ UNCHANGED <<running_, server_, clients_, message_queue_, message_thread_,
                   msg, outcomes, received, inbound>>
    /\ UNCHANGED besideQueue

\* processMessages: the loop condition while (running_)
WorkerTest ==
    /\ message_thread_ = "test"
    /\ message_thread_' = IF running_ THEN "pop" ELSE "exited"
    /\ UNCHANGED <<running_, server_, clients_, ready, message_queue_, msg, outcomes,
                   received, inbound>>
    /\ UNCHANGED besideQueue

\* processMessages: message_queue_.pop(msg, 100), which returns false when the
\* queue stayed empty for 100 ms
WorkerPop ==
    /\ message_thread_ = "pop"
    /\ IF message_queue_ # <<>>
       THEN /\ msg' = Head(message_queue_)
            /\ message_queue_' = Tail(message_queue_)
            /\ message_thread_' = "find"
       ELSE /\ message_thread_' = "test"
            /\ UNCHANGED <<msg, message_queue_>>
    /\ UNCHANGED <<running_, server_, clients_, ready, outcomes, received, inbound>>
    /\ UNCHANGED besideQueue

\* processMessages: it = clients_.find(msg.destination) and the test of
\* it->second->isConnected(); the message is dropped when the test fails
WorkerFind ==
    /\ message_thread_ = "find"
    /\ IF msg.destination \in clients_ \cap ready
       THEN /\ message_thread_' = "send"
            /\ UNCHANGED outcomes
       ELSE /\ message_thread_' = "test"
            /\ outcomes' = Append(outcomes, [msg |-> msg, sent |-> FALSE])
    /\ UNCHANGED <<running_, server_, clients_, ready, message_queue_, msg, received,
                   inbound>>
    /\ UNCHANGED besideQueue

\* what a call through the iterator can do: when stop() has cleared clients_
\* since the find, the stub it points to is destroyed, and the call either
\* still goes through or takes the process down
SendOutcomes == IF msg.destination \in clients_ THEN {"sent"} ELSE {"sent", "crashed"}

\* processMessages: it->second->sendData(msg.source, msg.destination, msg.data)
WorkerSend ==
    /\ message_thread_ = "send"
    /\ \E outcome \in SendOutcomes :
          IF outcome = "sent"
          THEN /\ message_thread_' = "test"
               /\ outcomes' = Append(outcomes, [msg |-> msg, sent |-> TRUE])
          ELSE /\ message_thread_' = "crashed"
               /\ UNCHANGED outcomes
    /\ UNCHANGED <<running_, server_, clients_, ready, message_queue_, msg, received,
                   inbound>>
    /\ UNCHANGED besideQueue

QueueNext ==
    \/ Start
    \/ Stop
    \/ \E destination \in Destinations : HandleData("client", destination, <<1>>)
    \/ \E p \in connections("A") : ChannelChange(p)
    \/ WorkerTest
    \/ WorkerPop
    \/ WorkerFind
    \/ WorkerSend

\* the message thread is a thread of its own: the scheduler lets it run
QueueSpec ==
    /\ QueueInit
    /\ [][QueueNext]_vars
    /\ WF_vars(WorkerTest)
    /\ WF_vars(WorkerPop)
    /\ WF_vars(WorkerFind)
    /\ WF_vars(WorkerSend)

----------------------------------------------------------------------------
(* The handling of inbound data messages at the nodes other than the portal:
   handleData of ProcessB, ProcessC, ProcessD and ProcessE *)

\* the states a channel is taken through
ChannelStates == {"IDLE", "READY", "TRANSIENT_FAILURE"}

\* the destinations a data message may name: every node, and a name no node has
RelayDestinations == Nodes \cup {"Z"}

\* the arguments of one DataServiceClient::sendData call on the stub of peer
Send(peer, source, destination, data) ==
    [peer |-> peer, source |-> source, destination |-> destination, data |-> data]

\* a handler that forwards to every peer it has a stub for, connected or not
handleDataUnchecked(n, source, destination, data) ==
    [node |-> n, source |-> source, destination |-> destination, data |-> data,
     local |-> destination = n,
     sends |-> IF destination # n /\ n # "E" /\ destination \in connections(n)
               THEN <<Send(destination, source, destination, data)>>
               ELSE <<>>]

\* handleData of node n: what the call does. E has no stubs and only logs a
\* foreign destination; B, C and D look the destination up in clients_
handleData(n, source, destination, data) ==
    [node |-> n, source |-> source, destination |-> destination, data |-> data,
     local |-> destination = n,
     sends |-> IF destination = n
               THEN <<>>
               ELSE IF n = "E"
               THEN <<>>
               ELSE IF destination \in connections(n) /\ isConnected(n, destination)
               THEN <<Send(destination, source, destination, data)>>
               ELSE <<>>]

\* what the handling of data messages at the workers leaves alone
besideRelay == <<cBuild, workload, endpoint, store, up, cache, stack, response, done, pre,
                 stored, misput, submitted, ticks, writes, now, cacheVars, codecVars,
                 queueVars, timerVars, lockVars, overlayVars>>

RelayInit ==
    /\ FabricAtRest
    /\ now = 0
    /\ shmBuild = "shared_memory/shared_memory.cpp"
    /\ mappable = TRUE
    /\ RegionAtRest
    /\ codec = NoCodec
    /\ QueueAtRest
    /\ DataAtRest
    /\ TimerAtRest
    /\ LockAtRest
    /\ OverlayAtRest

\* the channel of n to its peer p changes state
ChannelState(n, p, state) ==
    /\ chan[n][p] # state
    /\ chan' = [chan EXCEPT ![n][p] = state]
    /\ UNCHANGED inbound
    /\ UNCHANGED besideRelay

\* the server of worker n calls its data handler
WorkerHandleData(n, source, destination, data) ==
    /\ up[n]
    /\ inbound' = handleData(n, source, destination, data)
    /\ UNCHANGED chan
    /\ UNCHANGED besideRelay

RelayNext ==
    \/ \E n \in Nodes : \E p \in connections(n) : \E state \in ChannelStates :
          ChannelState(n, p, state)
    \/ \E n \in Workers : \E destination \in RelayDestinations :
          WorkerHandleData(n, "client", destination, <<1>>)

RelaySpec == RelayInit /\ [][RelayNext]_vars

----------------------------------------------------------------------------
(* The timing of one query at one node: QueryTimer, and the calls that one
   handleQuery call makes on it, directly and through queryData *)

\* the definitions of handleQuery that use the timer, by the shape of their
\* calls on it: the portal, the two definitions of B, C and D, the leaf E
Shapes == {"A", "B", "B2", "CD", "E"}

\* the nodes whose handleQuery has the shape
ShapeNodes(shape) ==
    CASE shape = "A" -> {"A"}
      [] shape \in {"B", "B2"} -> {"B"}
      [] shape = "CD" -> {"C", "D"}
      [] OTHER -> {"E"}

\* time spent in a cache access, in the local evaluation or in a peer call
WorkDurations == {0, TicksPerMs}

\* how the call to one peer goes: the channel is not connected; the RPC
\* fails; the peer answers success = false; it answers success = true with
\* its timing text; it answers success = true without any timing text
PeerOutcomes == {"skipped", "failed", "refused", "ok", "okEmpty"}

\* one line of a timing text
HeaderLine(process_id) == [kind |-> "header", text |-> process_id, time |-> 0]
OperationLine(operation, time) == [kind |-> "operation", text |-> operation, time |-> time]

\* response.timing_data of the peer
PeerTiming(peer, outcome) ==
    IF outcome \in {"ok", "refused"}
    THEN <<HeaderLine(peer), OperationLine("Total_Processing", 0)>>
    ELSE <<>>

\* one step of handleQuery as the timer sees it
Call(op, arg, by) == [op |-> op, arg |-> arg, by |-> by]

RECURSIVE OperationLines(_)
OperationLines(operation_times) ==
    IF operation_times = <<>>
    THEN <<>>
    ELSE <<OperationLine(Head(operation_times).operation, Head(operation_times).time)>>
         \o OperationLines(Tail(operation_times))

\* QueryTimer::serializeTimingData; the operations are written in the order
\* in which the map hands them out
serializeTimingData(info) ==
    IF info.present
    THEN <<HeaderLine(info.process_id)>>
         \o OperationLines(info.operation_times)
         \o Concat(info.downstream_timings)
    ELSE <<>>

\* operation_times[operation] = time
RECURSIVE SetOperation(_, _, _)
SetOperation(operation_times, operation, time) ==
    IF operation_times = <<>>
    THEN <<[operation |-> operation, time |-> time]>>
    ELSE IF Head(operation_times).operation = operation
    THEN <<[operation |-> operation, time |-> time]>> \o Tail(operation_times)
    ELSE <<Head(operation_times)>> \o SetOperation(Tail(operation_times), operation, time)

\* DataServiceClient::queryData on the stub of one peer, as the timer sees it
queryData(pr) ==
    <<Call("start", "Client", "queryData"), Call("start", "gRPC_Call", "queryData"),
      Call("rpc", pr.peer, "queryData"), Call("end", "gRPC_Call", "queryData")>>
    \o IF pr.outcome = "failed"
       THEN <<>>
       ELSE <<Call("add", pr, "queryData"), Call("end", "Total", "queryData")>>

\* the handler's own addDownstreamTiming for one peer result
AddIfAny(pr) ==
    IF pr.outcome = "ok" THEN <<Call("add", pr, "handleQuery")>> ELSE <<>>

\* the loop over clients_ of B: the calls first, tagged per peer
RECURSIVE CallsTagged(_)
CallsTagged(peers) ==
    IF peers = <<>>
    THEN <<>>
    ELSE (IF Head(peers).outcome = "skipped"
          THEN <<>>
          ELSE <<Call("start", "Query_To_" \o Head(peers).peer, "handleQuery")>>
               \o queryData(Head(peers))
               \o <<Call("end", "Query_To_" \o Head(peers).peer, "handleQuery")>>)
         \o CallsTagged(Tail(peers))

\* the loop over clients_ of A: the calls only
RECURSIVE CallsPlain(_)
CallsPlain(peers) ==
    IF peers = <<>>
    THEN <<>>
    ELSE (IF Head(peers).outcome = "skipped" THEN <<>> ELSE queryData(Head(peers)))
         \o CallsPlain(Tail(peers))

\* the loop over clients_ of C and D: each call followed by the handler's add
RECURSIVE CallsWithAdds(_)
CallsWithAdds(peers) ==
    IF peers = <<>>
    THEN <<>>
    ELSE (IF Head(peers).outcome = "skipped"
          THEN <<>>
          ELSE queryData(Head(peers)) \o AddIfAny(Head(peers)))
         \o CallsWithAdds(Tail(peers))

\* the loop over downstream_results of A and B
RECURSIVE Adds(_)
Adds(peers) ==
    IF peers = <<>> THEN <<>> ELSE AddIfAny(Head(peers)) \o Adds(Tail(peers))

\* the hit path of every handleQuery
HitScript(node) ==
    <<Call("start", node, "handleQuery"), Call("work", "get", "handleQuery"),
      Call("end", "Cache_Access", "handleQuery"),
      Call("end", "Total_Processing", "handleQuery"),
      Call("serialize", "", "handleQuery"), Call("serialize", "", "QueryData")>>

\* the miss path of handleQuery; forward tells whether the query is one the
\* node forwards
MissScript(shape, node, forward, peers) ==
    LET h(op, arg) == Call(op, arg, "handleQuery")
        entry == <<h("start", node), h("work", "get")>>
        local == <<h("start", "Local_Processing"), h("work", "local"),
                   h("end", "Local_Processing")>>
        exit == <<h("serialize", ""), Call("serialize", "", "QueryData")>>
    IN  CASE shape = "A" ->
               entry \o CallsPlain(peers) \o <<h("end", "Downstream_Queries")>>
               \o Adds(peers) \o <<h("end", "Total_Processing")>> \o exit
          [] shape \in {"B", "B2"} ->
               entry \o local
               \o (IF forward
                   THEN <<h("start", "Downstream_Queries")>> \o CallsTagged(peers)
                        \o Adds(peers) \o <<h("end", "Downstream_Queries")>>
                   ELSE <<>>)
               \o (IF shape = "B"
                   THEN <<h("start", "Cache_Storage"), h("work", "put"),
                          h("end", "Cache_Storage"), h("end", "Total_Processing")>>
                   ELSE <<h("start", "Cache_Storage"), h("end", "Total_Processing"),
                          h("work", "put"), h("end", "Cache_Storage")>>)
               \o exit
          [] shape = "CD" ->
               entry \o local
               \o (IF forward
                   THEN <<h("start", "Downstream_Queries")>> \o CallsWithAdds(peers)
                        \o <<h("end", "Downstream_Queries")>>
                   ELSE <<>>)
               \o <<h("start", "Cache_Storage"), h("work", "put"),
                     h("end", "Cache_Storage"), h("end", "Total_Processing")>>
               \o exit
          [] OTHER ->
               entry \o local
               \o <<h("start", "Cache_Storage"), h("work", "put"),
                     h("end", "Cache_Storage"), h("end", "Total_Processing")>>
               \o exit

Script(shape, node, path, peers) ==
    CASE path = "hit" -> HitScript(node)
      [] path = "forward" -> MissScript(shape, node, TRUE, peers)
      [] OTHER -> MissScript(shape, node, FALSE, peers)

\* the paths a handleQuery of the shape has: A forwards every miss, E none
PathsOf(shape) ==
    CASE shape = "A" -> {"hit", "forward"}
      [] shape = "E" -> {"hit", "local"}
      [] OTHER -> {"hit", "forward", "local"}

\* how the calls to the peers of the node may go, in the order of clients_
PeerRuns(node) ==
    {[i \in 1..Len(ps) |-> [peer |-> ps[i], outcome |-> os[i]]] :
        ps \in SetToSeqs(connections(node)),
        os \in [1..Cardinality(connections(node)) -> PeerOutcomes]}

\* what the timing of a query leaves alone
besideTimer == <<fabricVars, cacheVars, codecVars, queueVars, dataVars, lockVars, overlayVars>>

TimerInit ==
    /\ TimerAtRest
    /\ LockAtRest
    /\ OverlayAtRest
    /\ FabricAtRest
    /\ now = 0
    /\ shmBuild = "shared_memory/shared_memory.cpp"
    /\ mappable = TRUE
    /\ RegionAtRest
    /\ codec = NoCodec
    /\ QueueAtRest
    /\ DataAtRest

NextCall == Head(handling.script)

Running(op) == handling.state = "running" /\ handling.script # <<>> /\ NextCall.op = op

Advance == [handling EXCEPT !.script = Tail(handling.script)]

\* the server of a node calls handleQuery for a query id the timer has not seen
BeginHandling(shape, node, path, peers) ==
    /\ handling.state = "idle"
    /\ handling' = [NoHandling EXCEPT !.state = "running", !.shape = shape, !.node = node,
                                      !.path = path, !.peers = peers, !.began = now,
                                      !.script = Script(shape, node, path, peers),
                                      !.nth = 1]
    /\ UNCHANGED <<timings_, now>>
    /\ UNCHANGED besideTimer

\* the server of the node calls handleQuery for the same query id again (E is
\* asked by C and by D for one get_all; a client may send an id twice); the
\* key is in the node's cache by now, and timings_ still has the id's entry
BeginHandlingAgain ==
    /\ handling.state = "returned"
    /\ handling.nth = 1
    /\ handling' = [NoHandling EXCEPT !.state = "running", !.shape = handling.shape,
                                      !.node = handling.node, !.path = "hit",
                                      !.peers = handling.peers, !.began = now,
                                      !.script = HitScript(handling.node),
                                      !.nth = 2]
    /\ UNCHANGED <<timings_, now>>
    /\ UNCHANGED besideTimer

\* QueryTimer::startTiming(query_id, process_id)
StartTiming ==
    /\ Running("start")
    /\ timings_' = [timings_ EXCEPT !.present = TRUE, !.process_id = NextCall.arg,
                                    !.start_time = now]
    /\ handling' = Advance
    /\ UNCHANGED now
    /\ UNCHANGED besideTimer

\* QueryTimer::endTiming(query_id, operation): whole milliseconds since start_time
EndTiming ==
    /\ Running("end")
    /\ timings_' =
          IF timings_.present
          THEN [timings_ EXCEPT !.operation_times =
                   SetOperation(@, NextCall.arg, (now - timings_.start_time) \div TicksPerMs)]
          ELSE timings_
    /\ handling' = [Advance EXCEPT !.order = Append(@, NextCall.arg)]
    /\ UNCHANGED now
    /\ UNCHANGED besideTimer

\* QueryTimer::addDownstreamTiming(query_id, timing_data)
AddDownstreamTiming ==
    /\ Running("add")
    /\ timings_' =
          IF timings_.present
          THEN [timings_ EXCEPT !.downstream_timings =
                   Append(@, PeerTiming(NextCall.arg.peer, NextCall.arg.outcome))]
          ELSE timings_
    /\ handling' = [Advance EXCEPT !.adds = Append(@, [peer |-> NextCall.arg.peer,
                                                       by |-> NextCall.by])]
    /\ UNCHANGED now
    /\ UNCHANGED besideTimer

\* cache_->get, the local evaluation, cache_->put: time passes
Work ==
    /\ Running("work")
    /\ \E d \in WorkDurations : now' = now + d
    /\ handling' = Advance
    /\ UNCHANGED timings_
    /\ UNCHANGED besideTimer

\* stub_->QueryData: time passes until the peer's response is there
Rpc ==
    /\ Running("rpc")
    /\ \E d \in WorkDurations : now' = now + d
    /\ handling' = Advance
    /\ UNCHANGED timings_
    /\ UNCHANGED besideTimer

\* result.timing_data = serializeTimingData(query.id), by the handler and
\* again by DataServiceImpl::QueryData
SerializeTimingData ==
    /\ Running("serialize")
    /\ handling' = [Advance EXCEPT !.timing_data = serializeTimingData(timings_)]
    /\ UNCHANGED <<timings_, now>>
    /\ UNCHANGED besideTimer

\* the response leaves the node
Respond ==
    /\ handling.state = "running"
    /\ handling.script = <<>>
    /\ handling' = [handling EXCEPT !.state = "returned"]
    /\ UNCHANGED <<timings_, now>>
    /\ UNCHANGED besideTimer

TimerNext ==
    \/ \E shape \in Shapes : \E node \in ShapeNodes(shape) : \E path \in PathsOf(shape) :
          \E peers \in PeerRuns(node) : BeginHandling(shape, node, path, peers)
    \/ BeginHandlingAgain
    \/ StartTiming
    \/ EndTiming
    \/ AddDownstreamTiming
    \/ Work
    \/ Rpc
    \/ SerializeTimingData
    \/ Respond

TimerSpec == TimerInit /\ [][TimerNext]_vars

----------------------------------------------------------------------------
(* Claims C1..C10 *)

Keys(results) == [i \in 1..Len(results) |-> results[i].key]

Range(s) == {s[i] : i \in 1..Len(s)}

\* the forwardable set F of the specification
FVerbs == {"get_by_street", "get_by_key", "get_by_prefix", "get_by_date_range",
           "get_crashes_with_injuries", "get_crashes_with_fatalities", "get_by_time"}

\* the client's last request was verb(params) at node n and has been answered
Answered(n, verb, params) ==
    /\ response.valid
    /\ response.node = n
    /\ response.query.verb = verb
    /\ response.query.params = params

\* node n has handled its last query on the miss path
Missed(n) == done[n].valid /\ ~done[n].hit

RpcFailed(r) == ~r.success /\ r.message = <<"RPC failed: ">>

\* every peer of n was called and every call came back with a result
AllPeersAnswered(n) ==
    done[n].forwarded =>
        /\ Range(done[n].sent) = connections(n)
        /\ \A i \in 1..Len(done[n].received) : ~RpcFailed(done[n].received[i])

\* C1: with all nodes up, all caches empty and every worker holding only the
\* entry under its own key, get_all at A returns each of kB, kC, kD, kE
\* exactly once.  (Stated for runs in which every cache put stored the
\* intended bytes.)
C1_GetAllKeysOnce ==
    (/\ Answered("A", "get_all", <<>>)
     /\ pre.cachesEmpty
     /\ pre.down = {}
     /\ pre.initialStore
     /\ ~misput)
    => /\ response.ok
       /\ SeqToBag(Keys(response.result.results))
            = SetToBag({<<"kB">>, <<"kC">>, <<"kD">>, <<"kE">>})

\* the state C1 is refuted in: the answer carries kE twice
C1_KeyOfETwice ==
    /\ Answered("A", "get_all", <<>>)
    /\ pre.cachesEmpty /\ pre.down = {} /\ pre.initialStore /\ ~misput
    /\ response.ok
    /\ SeqToBag(Keys(response.result.results))
         = SetToBag({<<"kB">>, <<"kC">>, <<"kD">>, <<"kE">>}) (+) SetToBag({<<"kE">>})

\* C2: on the miss path, for a verb in F, when every peer called came back
\* with a result, the entries of the node's result are, as a multiset, the
\* node's local entries plus all entries of every peer result received; and
\* what B and A received is what the peer produced, after the wire conversion.
C2_MergeIsMultisetUnion ==
    \A n \in Nodes :
        (Missed(n) /\ done[n].query.verb \in FVerbs /\ AllPeersAnswered(n)) =>
            /\ SeqToBag(done[n].result.results)
                 = SeqToBag(done[n].local.results)
                   (+) SeqToBag(ConcatResults(done[n].received))
            /\ \A i \in 1..Len(done[n].received) :
                  done[n].sent[i] \in {"B", "C", "D"} =>
                      done[n].received[i] = queryDataOk(done[done[n].sent[i]].result)

\* B merged a non-empty local result with the results of both of its peers
C2_Witness ==
    /\ Missed("B")
    /\ done["B"].query.verb \in FVerbs
    /\ done["B"].forwarded
    /\ AllPeersAnswered("B")
    /\ Len(done["B"].local.results) = 1
    /\ Len(done["B"].received) = 2
    /\ Len(done["B"].result.results) = 3

\* C3: with D holding BRONX records and all caches empty, get_by_borough
\* [BRONX] at A returns exactly D's BRONX entries, and an immediate repeat
\* is answered from A's cache with the same entries.  (Stated for runs in
\* which every cache put stored the intended bytes.)
C3_BoroughAtPortal ==
    (/\ Answered("A", "get_by_borough", <<<<"BRONX">>>>)
     /\ pre.down = {}
     /\ ticks = 0
     /\ ~misput)
    => /\ response.ok
       /\ response.result.success
       /\ Keys(response.result.results) = <<<<"kD">>>>
       /\ ~pre.cachesEmpty => done["A"].hit

\* the state C3 is refuted in: A answers the first request with no entry,
\* having asked B, which asked nobody
C3_NothingFromD ==
    /\ Answered("A", "get_by_borough", <<<<"BRONX">>>>)
    /\ pre.cachesEmpty /\ pre.down = {} /\ ~misput
    /\ response.ok
    /\ response.result.results = <<>>
    /\ done["A"].sent = <<"B">>
    /\ Missed("B") /\ done["B"].sent = <<>>
    /\ ~done["D"].valid

\* the owner of a borough, as the specification assigns them
Owner(borough) ==
    CASE borough = <<"BROOKLYN">> -> "B"
      [] borough = <<"QUEENS">> -> "C"
      [] borough = <<"BRONX">> -> "D"
      [] OTHER -> "E"

\* C4: for get_by_borough(b), a worker that does not own b evaluates to a
\* success with zero local entries, issues no peer query and contributes no
\* entry to its answer.
C4_NonOwnerContributesNothing ==
    \A n \in Workers :
        (/\ Missed(n)
         /\ done[n].query.verb = "get_by_borough"
         /\ Owner(done[n].query.params[1]) # n)
        => /\ done[n].local.success
           /\ done[n].local.results = <<>>
           /\ done[n].sent = <<>>
           /\ done[n].result.results = <<>>

\* the state C4 is refuted in: B, which owns BROOKLYN, answers a QUEENS
\* query with the QUEENS record it holds
C4_NonOwnerAnswers ==
    /\ Missed("B")
    /\ done["B"].query.verb = "get_by_borough"
    /\ done["B"].query.params = <<<<"QUEENS">>>>
    /\ done["B"].result.success
    /\ Keys(done["B"].result.results) = <<<<"kX">>>>

\* elapsed clock ticks amount to at most ms milliseconds
WithinMs(elapsed, ms) ==
    LET whole == elapsed \div TicksPerMs
    IN whole < ms \/ (whole = ms /\ elapsed % TicksPerMs = 0)

\* node n has handled a query whose cache key had been put before, and the
\* handling began within the node's TTL, in milliseconds, of that put
RepeatWithinTtl(n) ==
    /\ done[n].valid
    /\ done[n].key \in DOMAIN done[n].before
    /\ WithinMs(done[n].began - done[n].before[done[n].key].timestamp, CacheTtl(n))

\* C5: a repeat of a query at a node within ttl_ms of the put of its result R
\* (5000 ms at B..E, 10000 ms at A) returns success, the message "From
\* cache" and R's entries.  (Stated for runs in which every cache put stored
\* the intended bytes.)
C5_RepeatWithinTtlFromCache ==
    \A n \in Nodes :
        (RepeatWithinTtl(n) /\ ~misput)
        => /\ done[n].hit
           /\ ~done[n].threw
           /\ done[n].result.success
           /\ done[n].result.message = <<"From cache">>
           /\ done[n].result.results = stored[n][done[n].key].results

\* the state C5 is refuted in: a worker evaluates a repeat afresh although
\* less than a millisecond has passed since the put
C5_MissWithinTtl ==
    \E n \in Workers :
        /\ RepeatWithinTtl(n)
        /\ ~misput
        /\ ~done[n].hit
        /\ done[n].began - done[n].before[done[n].key].timestamp < TicksPerMs

\* C6: SharedCache::get on an entry put with ttl_ms > 0 returns the payload
\* exactly when now - inserted_at <= ttl_ms, all three in milliseconds.
C6_FreshInMilliseconds ==
    \A n \in Nodes : \A k \in DOMAIN cache[n] :
        LET entry == cache[n][k]
            got == SharedCacheGet(cache[n], k, now)
        IN entry.ttl > 0 =>
              /\ got.hit <=> WithinMs(now - entry.timestamp, entry.ttl)
              /\ got.hit => got.data = entry.data

\* the state C6 is refuted in: get misses an entry put with ttl 5000 less
\* than a millisecond ago
C6_MissAfterMicroseconds ==
    \E n \in Workers : \E k \in DOMAIN cache[n] :
        /\ cache[n][k].ttl = WorkerTtl
        /\ now - cache[n][k].timestamp < TicksPerMs
        /\ ~SharedCacheGet(cache[n], k, now).hit

\* C7: a query with an unknown verb, sent to any node, the portal included,
\* is answered with success=false and the message "Unknown query: <verb>",
\* and writes nothing to that node's cache.  (Stated for runs in which every
\* cache put stored the intended bytes.)
C7_UnknownVerbFails ==
    (Answered(endpoint, "get_by_moon_phase", <<<<"full">>>>) /\ ~misput)
    => /\ response.ok
       /\ ~response.result.success
       /\ response.result.message = <<"Unknown query: ", "get_by_moon_phase">>
       /\ ~done[endpoint].put
       /\ cache[endpoint] = <<>>

\* the state C7 is refuted in: the portal answers with success and has
\* cached the answer
C7_PortalSucceeds ==
    /\ Answered("A", "get_by_moon_phase", <<<<"full">>>>)
    /\ ~misput
    /\ Missed("A")
    /\ response.result.success
    /\ response.result.message
         = <<"Combined results from ", "0", " sources", " (", "0", " total entries)">>
    /\ done["A"].sent = <<"B">>
    /\ done["A"].put
    /\ DOMAIN cache["A"] = {<<"get_by_moon_phase", "_", "full">>}

\* the parameters of the workloads that are no MM/DD/YYYY date
InvalidDates == {<<"13/40/2021">>, <<"2021-01-01">>}

InvalidDateMessage == <<"Invalid date format. Use MM/DD/YYYY">>

\* C8: get_by_date_range with a start or end that is no valid MM/DD/YYYY
\* date fails with the invalid-date message, in the evaluator's result and
\* in the result the node returns, and nothing is put in the cache.
C8_InvalidDateFails ==
    \A n \in Workers :
        (/\ Missed(n)
         /\ done[n].query.verb = "get_by_date_range"
         /\ \E i \in 1..2 : done[n].query.params[i] \in InvalidDates)
        => /\ ~done[n].local.success
           /\ done[n].local.message = InvalidDateMessage
           /\ ~done[n].result.success
           /\ done[n].result.message = InvalidDateMessage
           /\ ~done[n].put

\* the state C8 is refuted in: E evaluates the range starting 13/40/2021
\* to a success and caches it
C8_Month13Accepted ==
    /\ Missed("E")
    /\ done["E"].query.verb = "get_by_date_range"
    /\ done["E"].query.params[1] = <<"13/40/2021">>
    /\ done["E"].local.success
    /\ done["E"].result.success
    /\ done["E"].put

\* the peers of n whose channel counts as connected
ConnectedPeers(n) == {p \in connections(n) : isConnected(n, p)}

\* C9: a node with connected peers issues peer queries for a query it
\* evaluates if and only if the verb is get_all or in F; for get_by_borough
\* and unknown verbs no node, the portal included, does.
C9_ForwardIffGetAllOrF ==
    \A n \in Nodes :
        (Missed(n) /\ connections(n) # {} /\ ConnectedPeers(n) = connections(n))
        => (done[n].sent # <<>> <=> done[n].query.verb \in FVerbs \cup {"get_all"})

\* the verbs for which the code of node n enters its fan-out loop
ForwardsByRule(n, verb) ==
    CASE n = "A" -> TRUE
      [] n = "C" /\ cBuild = "process_c" ->
            verb \in {"get_all", "get_by_prefix", "get_by_key"}
      [] OTHER -> verb \in FVerbs \cup {"get_all"}

\* what the code does where C9 fails: on a miss B, D and the part_007 build
\* of C query every connected peer when the verb is get_all or in F and no
\* peer otherwise; the portal queries every connected peer for every verb;
\* the process_c.cpp build of C forwards get_all, get_by_prefix and
\* get_by_key only; on a hit no node queries a peer.
ForwardingRuleOfTheCode ==
    \A n \in Nodes :
        done[n].valid =>
            /\ Range(done[n].sent) \subseteq connections(n)
            /\ done[n].hit => done[n].sent = <<>>
            /\ (Missed(n) /\ ~ForwardsByRule(n, done[n].query.verb))
                    => done[n].sent = <<>>
            /\ (Missed(n) /\ ForwardsByRule(n, done[n].query.verb))
                    => ConnectedPeers(n) \subseteq Range(done[n].sent)

\* the state C9 is refuted in: the portal has asked B for a borough, and B,
\* with both of its peers connected, has asked nobody
C9_PortalAsksForBorough ==
    /\ Missed("A")
    /\ done["A"].query.verb = "get_by_borough"
    /\ done["A"].sent = <<"B">>
    /\ Missed("B")
    /\ done["B"].sent = <<>>
    /\ ConnectedPeers("B") = {"C", "D"}

Successful(rs) == SelectSeq(rs, LAMBDA r : r.success)

\* C10: a peer that is not connected, or whose RPC fails, contributes no
\* entry; every connected peer is still queried; the node's result keeps
\* its success flag and holds the local entries and those of the peers that
\* responded; and with C down, get_all at A on the reference overlay
\* returns success with the keys kB, kD, kE.
C10_PeerFailureSwallowed ==
    /\ \A n \in Nodes :
          (Missed(n) /\ done[n].forwarded) =>
              /\ ConnectedPeers(n) \subseteq Range(done[n].sent)
              /\ done[n].result.results
                   = done[n].local.results \o ConcatResults(Successful(done[n].received))
              /\ done[n].result.success = (n = "A" \/ done[n].local.success)
    /\ (/\ Answered("A", "get_all", <<>>)
        /\ pre.cachesEmpty
        /\ pre.down = {"C"}
        /\ pre.initialStore)
       => /\ response.ok
          /\ response.result.success
          /\ SeqToBag(Keys(response.result.results))
               = SetToBag({<<"kB">>, <<"kD">>, <<"kE">>})

\* the state C10 is refuted in: with C down, the portal's answer to get_all
\* lacks kE, because E's handler threw and D's call to E failed
C10_KeyOfEMissing ==
    /\ Answered("A", "get_all", <<>>)
    /\ pre.cachesEmpty /\ pre.down = {"C"} /\ pre.initialStore
    /\ response.ok
    /\ SeqToBag(Keys(response.result.results)) = SetToBag({<<"kB">>, <<"kD">>})
    /\ done["E"].threw
    /\ RpcFailed(done["D"].received[1])

----------------------------------------------------------------------------
(* Claims C11..C20 *)

\* C11: the handler puts into the cache only a result whose success flag is
\* true; a handling that ends with success = false leaves the cache of the
\* node as it was when the handling began.
C11_PutOnlyOnSuccess ==
    \A n \in Nodes :
        done[n].valid =>
            /\ done[n].put => done[n].result.success
            /\ ~done[n].result.success =>
                  /\ ~done[n].put
                  /\ cache[n] = done[n].before

\* a worker has ended a handling on the miss path with success = false
C11_FailureHandled ==
    \E n \in Workers :
        /\ Missed(n)
        /\ ~done[n].threw
        /\ ~done[n].result.success
        /\ done[n].result.message = <<"Unknown query: ", "get_by_moon_phase">>
        /\ cache[n] = done[n].before

\* the cache key of the specification: "query_" <verb> then "_" <p> per param
KeyOfTheSpec(query) == <<"query_", query.verb>> \o JoinParams(query.params)

\* C12: for equal (verb, params) every node computes the same cache key,
\* "query_" followed by the verb and "_" + p for each param; the key depends
\* neither on the query id nor on the node.
C12_SameKeyAtEveryNode ==
    \A n \in Nodes :
        done[n].valid =>
            /\ done[n].key = KeyOfTheSpec(done[n].query)
            /\ \A m \in Nodes :
                  (/\ done[m].valid
                   /\ done[m].query.verb = done[n].query.verb
                   /\ done[m].query.params = done[n].query.params)
                  => done[m].key = done[n].key

\* the state C12 is refuted in: A and B have handled the same get_by_key
\* query, A under a key without the "query_" prefix
C12_PortalKeyDiffers ==
    /\ done["A"].valid
    /\ done["B"].valid
    /\ done["A"].query = done["B"].query
    /\ done["A"].query.verb = "get_by_key"
    /\ done["A"].key = <<"get_by_key", "_", "kE">>
    /\ done["B"].key = <<"query_", "get_by_key", "_", "kE">>

\* C13: a put whose serialized image would exceed the capacity of the
\* region returns failure and leaves the image and the retrievable entries
\* as they were before the call.
C13_OversizePutFails ==
    \A i \in Insts :
        (inst[i].last.kind = "put" /\ inst[i].last.overflow) =>
            /\ ~inst[i].last.ret.ok
            /\ inst[i].last.imageKept
            /\ inst[i].last.mapKept

\* the state C13 is refuted in: an oversize put has returned true, its entry
\* is retrievable, and the region holds the first RegionCap cells of an image
\* that announces two entries and holds one
C13_TruncatedImage ==
    \E i \in Insts :
        /\ shmBuild = "shared_memory/shared_memory.cpp"
        /\ inst[i].state = "idle"
        /\ inst[i].last.kind = "put"
        /\ inst[i].last.overflow
        /\ inst[i].last.ret.ok
        /\ inst[i].last.key \in DOMAIN inst[i].cache_map
        /\ ~inst[i].last.imageKept
        /\ ~inst[i].last.mapKept
        /\ region[inst[i].place][1] = 2
        /\ Cardinality(DOMAIN DeserializeFromMemory(region[inst[i].place])) = 1

\* an entry is fresh by the measure of SharedCache::get
FreshEntry(e) == e.ttl = 0 \/ now <= e.timestamp + e.ttl

\* the instances attached to the region of place pl
Attached(pl) == {i \in Insts : inst[i].state \in {"idle", "in"} /\ inst[i].place = pl}

\* C14: with two instances attached to one region, a fresh entry put through
\* either is returned by get through both, and no put, remove or clear
\* through one drops from the image an entry put through the other and
\* not removed.
C14_SharedBetweenInstances ==
    \A pl \in Places :
        \A k \in DOMAIN live[pl] :
            /\ FreshEntry(live[pl][k]) =>
                  \A i \in Attached(pl) :
                      SharedCacheGet(inst[i].cache_map, k, now)
                          = [hit |-> TRUE, data |-> live[pl][k].data]
            /\ k \in DOMAIN DeserializeFromMemory(region[pl])

\* the state C14 is refuted in: i1 has put key 1, then i2 has put key 2, both
\* fit the region; i2 does not return key 1 and the image has lost it
C14_EntryOfOtherInstanceLost ==
    /\ Attached("shm") = {"i1", "i2"}
    /\ DOMAIN live["shm"] = {<<1>>, <<2>>}
    /\ inst["i1"].last.kind = "put" /\ inst["i1"].last.key = <<1>>
    /\ inst["i2"].last.kind = "put" /\ inst["i2"].last.key = <<2>>
    /\ ~inst["i1"].last.overflow /\ ~inst["i2"].last.overflow
    /\ inst["i1"].last.ttl = 0
    /\ ~SharedCacheGet(inst["i2"].cache_map, <<1>>, now).hit
    /\ DOMAIN DeserializeFromMemory(region["shm"]) = {<<2>>}

\* the instances inside the critical section of a call on the region of pl
Inside(pl) == {i \in Insts : inst[i].state = "in" /\ inst[i].place = pl}

\* C15: at most one get, put, remove or clear is inside its critical section
\* on a region at any time, over all instances and processes attached to
\* it, also when an instance is attached or destroyed meanwhile.
C15_MutualExclusion == \A pl \in Places : Cardinality(Inside(pl)) <= 1

\* the state C15 is refuted in: i1 of process p1 is inside a call, process p2
\* has attached to the shm object since, and i2 of p2 is inside a call too
C15_TwoInside ==
    /\ mappable
    /\ Inside("shm") = {"i1", "i2"}
    /\ inst["i1"].proc = "p1"
    /\ inst["i2"].proc = "p2"
    /\ inst["i1"].call.kind = "put"
    /\ inst["i2"].call.kind = "put"

\* C16: when the region cannot be created or mapped, create still returns
\* a usable cache, and every sequence of calls on it returns what the same
\* sequence returns on a cache backed by a new region, and leaves the same
\* entries retrievable.
C16_FallbackEquivalent ==
    ~mappable =>
        \A i \in Insts :
            inst[i].state # "none" =>
                /\ inst[i].state # "null"
                /\ inst[i].cache_map = inst[i].ref
                /\ inst[i].last.ret = inst[i].last.refRet

\* the state C16 is refuted in: the region could not be mapped and create of
\* shared_memory.cpp has returned nullptr
C16_CreateReturnedNull ==
    /\ ~mappable
    /\ shmBuild = "shared_memory.cpp"
    /\ inst["i1"].state = "null"
    /\ ~segments["p1"]

\* C17: an entry put with ttl_ms = 0 never expires: every later get of its
\* key through the instance it was put through returns the payload, however
\* much time has passed, until another put overwrites the key, a remove
\* takes it away or the cache is cleared.
C17_ZeroTtlNeverExpires ==
    \A i \in Insts :
        inst[i].state \in {"idle", "in"} =>
            /\ \A k \in DOMAIN inst[i].eternal :
                  SharedCacheGet(inst[i].cache_map, k, now)
                      = [hit |-> TRUE, data |-> inst[i].eternal[k]]
            /\ (/\ inst[i].last.kind = "get"
                /\ inst[i].last.key \in DOMAIN inst[i].eternal)
               => inst[i].last.ret = [ok |-> TRUE, data |-> inst[i].eternal[inst[i].last.key]]

\* an entry put with ttl 0 has been returned by a get two TTLs of the
\* workers later
C17_GetLongAfterPut ==
    \E i \in Insts :
        /\ inst[i].state = "idle"
        /\ inst[i].last.kind = "get"
        /\ inst[i].last.key = <<1>>
        /\ inst[i].eternal = (<<1>> :> <<7>>)
        /\ inst[i].cache_map[<<1>>].ttl = 0
        /\ inst[i].cache_map[<<1>>].timestamp = 0
        /\ inst[i].last.at = 2 * WorkerTtl
        /\ inst[i].last.ret = [ok |-> TRUE, data |-> <<7>>]

\* the client's last two requests were the same query at the same node, both
\* were answered, and no store was written between them
AnsweredTwice ==
    /\ response.valid /\ response.ok
    /\ pre.prev.valid /\ pre.prev.ok
    /\ pre.prev.node = response.node
    /\ pre.prev.query.verb = response.query.verb
    /\ pre.prev.query.params = response.query.params
    /\ pre.sameStore

\* C18: a query submitted twice back-to-back at one node, with no store
\* write in between, returns two results whose entries, key and value, are
\* equal as multisets, whether the second is recomputed or comes from the
\* cache.  (Stated for runs in which every cache put stored the intended
\* bytes.)
C18_RepeatIsIdempotent ==
    (AnsweredTwice /\ ~misput) =>
        SeqToBag(response.result.results) = SeqToBag(pre.prev.result.results)

\* the state C18 is refuted in: get_all twice at B; the first answer carries
\* kB with the text of its crash record, the second, from the cache, carries
\* kB with the placeholder the cache line held
C18_PlaceholderOnRepeat ==
    /\ AnsweredTwice /\ ~misput
    /\ response.node = "B"
    /\ response.query.verb = "get_all"
    /\ pre.at = pre.prev.at
    /\ done["B"].hit
    /\ \E i \in 1..Len(pre.prev.result.results) :
          /\ pre.prev.result.results[i].key = <<"kB">>
          /\ pre.prev.result.results[i].sval[1] = "Date: "
    /\ \E i \in 1..Len(response.result.results) :
          /\ response.result.results[i].key = <<"kB">>
          /\ response.result.results[i].sval = <<"CrashData:", "kB">>

\* C19: decoding the bytes a node writes to its cache for a successful
\* result with int and string values yields as many entries, with the same
\* key, type and value each, in the line encoding of the workers and in the
\* header encoding of the portal, whatever the strings and the message hold.
C19_EncodingRoundTrips ==
    codec.pc = "decoded" =>
        /\ ~codec.threw
        /\ codec.output.results = codec.input.results

\* the state C19 is refuted in: a worker's line encoding has lost the entry
\* whose string is empty
C19_EmptyStringLost ==
    /\ codec.pc = "decoded"
    /\ codec.node = "B"
    /\ codec.input.results = <<IntEntry(<<"k1">>, 5), StringEntry(<<"k2">>, <<>>)>>
    /\ codec.bytes = <<"k1", ",", "int", ",", "5", "\n", "k2", ",", "string", ",", "\n">>
    /\ ~codec.threw
    /\ codec.output.results = <<IntEntry(<<"k1">>, 5)>>

\* message number n waits in the portal's queue
InQueue(n) == \E i \in DOMAIN message_queue_ : message_queue_[i].nth = n

\* message number n was popped by the message thread
Popped(n) == msg.nth = n \/ \E i \in DOMAIN outcomes : outcomes[i].msg.nth = n

\* C20: every message enqueued on the portal's queue while the portal is
\* started is eventually popped by the message thread, unless the portal is
\* stopped first; a popped message was sent exactly if its destination has a
\* stub whose channel is connected; and between a successful start() and
\* stop() the message thread has not left its loop.
C20_EnqueuedIsEventuallyPopped ==
    /\ \A n \in 1..MaxData :
          (running_ /\ InQueue(n)) ~> (Popped(n) \/ ~running_)
    /\ [](\A i \in DOMAIN outcomes :
            outcomes[i].sent => outcomes[i].msg.destination \in connections("A"))
    /\ [](running_ => message_thread_ # "exited")

\* the portal is started, a message for its peer waits in the queue, and the
\* message thread has already returned from processMessages
C20_ThreadGoneBeforeStart ==
    /\ running_
    /\ server_ = "serving"
    /\ message_thread_ = "exited"
    /\ outcomes = <<>>
    /\ \E i \in DOMAIN message_queue_ :
          message_queue_[i].destination \in clients_ \cap ready

----------------------------------------------------------------------------
(* The threads of one node and its mutexes: two handleQuery calls with
   different query ids on threads of the server's pool, and a thread that
   calls DataStore::store *)

Do(op, arg) == [op |-> op, arg |-> arg]

\* std::lock_guard<std::mutex> lock(mutex) around the body of a method
Guarded(mutex_, body) == <<Do("lock", mutex_)>> \o body \o <<Do("unlock", mutex_)>>

\* a loop over data_, or a find in it
ReadData == <<Do("touch", "read"), Do("leave", "read")>>

\* data_[entry.key] = entry
WriteData == <<Do("touch", "write"), Do("leave", "write")>>

\* a processQuery that takes the mutex and keeps it when it returns
DataStore_processQueryHolding == <<Do("lock", "store")>> \o ReadData

DataStore_processQuery == Guarded("store", ReadData)

DataStore_getByBorough == ReadData

DataStore_store == Guarded("store", WriteData)

\* startTiming, endTiming, addDownstreamTiming, serializeTimingData
QueryTimer_call == Guarded("timer", <<>>)

\* SharedCache::get, SharedCache::put: local_mutex_, and inside it the
\* segment's mutex from segment_->lock() to segment_->unlock()
SharedCache_call == Guarded("cache", Guarded("segment", <<>>))

\* DataServiceClient::queryData: the timer, the blocking stub call, the timer
Client_queryData ==
    QueryTimer_call \o <<Do("send", "rpc"), Do("return", "rpc")>> \o QueryTimer_call

\* the verbs: the one a node answers from its own rows by calling
\* getByBorough, and one it hands to processQuery
Verbs == {"get_by_borough", "get_by_key"}

\* a get_by_borough query is never forwarded by the node that owns the borough
LockPaths(verb) ==
    IF verb = "get_by_borough" THEN {"hit", "local"} ELSE {"hit", "local", "forward"}

\* handleQuery of a worker, as the mutexes see it
HandlerScript(path, verb) ==
    SharedCache_call \o QueryTimer_call
    \o (IF path = "hit"
        THEN <<>>
        ELSE (IF verb = "get_by_borough"
              THEN DataStore_getByBorough
              ELSE DataStore_processQuery)
             \o QueryTimer_call
             \o (IF path = "forward" THEN Client_queryData ELSE <<>>)
             \o SharedCache_call \o QueryTimer_call)

QueryIdOf(th) == IF th = "h1" THEN 1 ELSE 2

besideLock == <<fabricVars, now, cacheVars, codecVars, queueVars, dataVars, timerVars,
                overlayVars>>

LockInit ==
    /\ LockAtRest
    /\ OverlayAtRest
    /\ FabricAtRest
    /\ now = 0
    /\ shmBuild = "shared_memory/shared_memory.cpp"
    /\ mappable = TRUE
    /\ RegionAtRest
    /\ codec = NoCodec
    /\ QueueAtRest
    /\ DataAtRest
    /\ TimerAtRest

NextDo(th) == Head(pool[th].script)

At(th, op) ==
    pool[th].state = "running" /\ pool[th].script # <<>> /\ NextDo(th).op = op

Stepped(th) == [pool[th] EXCEPT !.script = Tail(@)]

\* the server hands a query to a thread of its pool
ThreadHandleQuery(th, path, verb) ==
    /\ pool[th].state = "idle"
    /\ pool' = [pool EXCEPT ![th] =
                   [NoThread EXCEPT !.state = "running", !.id = QueryIdOf(th),
                                    !.path = path, !.verb = verb,
                                    !.script = HandlerScript(path, verb)]]
    /\ UNCHANGED locked
    /\ UNCHANGED besideLock

\* a thread calls DataStore::store on the node's store
ThreadStore ==
    /\ pool[WriterThread].state \in {"idle", "done"}
    /\ pool[WriterThread].stores < MaxStores
    /\ pool' = [pool EXCEPT ![WriterThread] =
                   [NoThread EXCEPT !.state = "running", !.script = DataStore_store,
                                    !.stores = pool[WriterThread].stores + 1]]
    /\ UNCHANGED locked
    /\ UNCHANGED besideLock

\* std::mutex::lock: the thread waits until the mutex is free
Lock(th) ==
    /\ At(th, "lock")
    /\ locked[NextDo(th).arg] = ""
    /\ locked' = [locked EXCEPT ![NextDo(th).arg] = th]
    /\ pool' = [pool EXCEPT ![th] = Stepped(th)]
    /\ UNCHANGED besideLock

\* std::mutex::unlock at the end of the lock_guard's scope
Unlock(th) ==
    /\ At(th, "unlock")
    /\ locked' = [locked EXCEPT ![NextDo(th).arg] = ""]
    /\ pool' = [pool EXCEPT ![th] = Stepped(th)]
    /\ UNCHANGED besideLock

\* the thread starts to read or to write data_
Touch(th) ==
    /\ At(th, "touch")
    /\ pool' = [pool EXCEPT ![th] = [Stepped(th) EXCEPT !.inside = NextDo(th).arg]]
    /\ UNCHANGED locked
    /\ UNCHANGED besideLock

\* the thread is through with data_
Leave(th) ==
    /\ At(th, "leave")
    /\ pool' = [pool EXCEPT ![th] = [Stepped(th) EXCEPT !.inside = ""]]
    /\ UNCHANGED locked
    /\ UNCHANGED besideLock

\* stub_->QueryData: the thread blocks until the peer has answered
RpcSend(th) ==
    /\ At(th, "send")
    /\ pool' = [pool EXCEPT ![th] = [Stepped(th) EXCEPT !.inside = "rpc"]]
    /\ UNCHANGED locked
    /\ UNCHANGED besideLock

\* the peer's answer, or the failure of the call, arrives
RpcReturn(th) ==
    /\ At(th, "return")
    /\ pool' = [pool EXCEPT ![th] = [Stepped(th) EXCEPT !.inside = ""]]
    /\ UNCHANGED locked
    /\ UNCHANGED besideLock

\* the call returns; waiting keeps the threads that are blocked on a peer
\* at that moment
ThreadReturn(th) ==
    /\ pool[th].state = "running"
    /\ pool[th].script = <<>>
    /\ pool' = [pool EXCEPT ![th].state = "done",
                            ![th].waiting = {o \in HandlerThreads : pool[o].inside = "rpc"}]
    /\ UNCHANGED locked
    /\ UNCHANGED besideLock

LockNext ==
    \/ \E th \in HandlerThreads : \E verb \in Verbs : \E path \in LockPaths(verb) :
          ThreadHandleQuery(th, path, verb)
    \/ ThreadStore
    \/ \E th \in Threads : Lock(th)
    \/ \E th \in Threads : Unlock(th)
    \/ \E th \in Threads : Touch(th)
    \/ \E th \in Threads : Leave(th)
    \/ \E th \in HandlerThreads : RpcSend(th)
    \/ \E th \in HandlerThreads : RpcReturn(th)
    \/ \E th \in Threads : ThreadReturn(th)

\* every thread that can run does run; nothing makes a peer answer
LockSpec ==
    /\ LockInit
    /\ [][LockNext]_vars
    /\ \A th \in Threads :
          /\ WF_vars(Lock(th))
          /\ WF_vars(Unlock(th))
          /\ WF_vars(Touch(th))
          /\ WF_vars(Leave(th))
          /\ WF_vars(ThreadReturn(th))
    /\ \A th \in HandlerThreads : WF_vars(RpcSend(th))

----------------------------------------------------------------------------
(* Claims C21..C30 *)

\* a step in which the portal's server calls handleData
PortalHandles == received' = received + 1

\* C21: the portal's handler of inbound data never sends to a peer itself: for
\* a destination other than A it appends the message, unchanged, to the
\* queue and returns; for destination A it processes the data locally and
\* enqueues nothing.
C21_HandlerOnlyEnqueues ==
    [][PortalHandles =>
        /\ inbound'.node = "A"
        /\ inbound'.sends = <<>>
        /\ outcomes' = outcomes
        /\ IF inbound'.destination = "A"
           THEN inbound'.local /\ message_queue_' = message_queue_
           ELSE /\ ~inbound'.local
                /\ message_queue_' =
                     Append(message_queue_,
                            Message(inbound'.source, inbound'.destination,
                                    inbound'.data, received'))]_vars

\* the handler returned for a message to the connected peer B: the message
\* waits in the queue and nothing was sent
C21_PeerMessageQueued ==
    /\ inbound.node = "A"
    /\ inbound.destination = "B"
    /\ "B" \in clients_ \cap ready
    /\ inbound.sends = <<>>
    /\ outcomes = <<>>
    /\ message_queue_ # <<>>
    /\ message_queue_[Len(message_queue_)] =
          Message("client", "B", <<1>>, received)

\* C22: once stop() has cleared the flag, or start() has failed and left it
\* clear, the message thread leaves processMessages, so that the join in the
\* destructor returns.
C22_WorkerExitsAfterStop ==
    (server_ \in {"stopped", "failed"}) ~> (message_thread_ = "exited")

\* stop() cleared clients_ between the thread's find and its sendData: the
\* call went through a destroyed stub and the thread never returned
C22_StubDestroyedUnderSend ==
    /\ server_ = "stopped"
    /\ ~running_
    /\ clients_ = {}
    /\ msg.destination = "B"
    /\ message_thread_ = "crashed"

\* the largest capacity that is smaller than the number of messages that arrive
Capacity == MaxData - 1

\* C23: the portal's queue is bounded: there is a fixed capacity that the
\* number of queued messages never exceeds, however many messages arrive and
\* whether or not the message thread drains the queue. MessageQueue holds no
\* capacity; the claim is checked for every capacity below the number of
\* arrivals, of which Capacity is the largest.
C23_QueueBounded == Len(message_queue_) <= Capacity

\* every message that arrived is in the queue at once
C23_QueueHoldsEveryArrival ==
    /\ received = MaxData
    /\ Len(message_queue_) = MaxData
    /\ \A i \in DOMAIN message_queue_ : message_queue_[i].nth = i

\* a step in which a worker's server calls handleData
WorkerHandles == inbound' # inbound /\ inbound'.node \in Workers

\* C24: at a node other than the portal an inbound data message causes
\* exactly one send to peers[dst], with source, destination and data
\* unchanged, exactly if dst differs from the node's id and dst is a direct
\* outbound peer whose channel is connected; with dst equal to the node's id
\* the data is processed locally and nothing is sent; in every other case,
\* and for every foreign dst at the leaf E, nothing is sent.
C24_WorkerForwardsOnce ==
    [][WorkerHandles =>
        LET n == inbound'.node
            dst == inbound'.destination
        IN  /\ inbound'.local <=> dst = n
            /\ IF dst # n /\ dst \in connections(n) /\ isConnected(n, dst)
               THEN inbound'.sends =
                      <<Send(dst, inbound'.source, dst, inbound'.data)>>
               ELSE inbound'.sends = <<>>
            /\ n = "E" => inbound'.sends = <<>>]_vars

\* B forwarded a message for D, once and unchanged, while its channel to its
\* other peer C had failed
C24_ForwardedToConnectedPeer ==
    /\ inbound.node = "B"
    /\ inbound.destination = "D"
    /\ ~inbound.local
    /\ inbound.sends = <<Send("D", "client", "D", <<1>>)>>
    /\ chan["B"]["C"] = "TRANSIENT_FAILURE"

\* C25: the timing text placed in the response of a handling at node N
\* begins with the header naming N, on the hit path and on the miss path,
\* whatever phases were recorded and whatever peer calls were made.
C25_HeaderNamesTheNode ==
    handling.state = "returned" =>
        /\ handling.timing_data # <<>>
        /\ Head(handling.timing_data) = HeaderLine(handling.node)

\* E answered on the miss path, without any peer call, and its timing text
\* begins with a header that names the phase last started
C25_HeaderNamesAPhase ==
    /\ handling.state = "returned"
    /\ handling.node = "E"
    /\ handling.path = "local"
    /\ Head(handling.timing_data) = HeaderLine("Cache_Storage")

\* the value recorded for the operation, -1 when there is none
RECURSIVE TimeOf(_, _)
TimeOf(operation_times, operation) ==
    IF operation_times = <<>>
    THEN -1
    ELSE IF Head(operation_times).operation = operation
    THEN Head(operation_times).time
    ELSE TimeOf(Tail(operation_times), operation)

\* a step in which the handling records a phase
RecordsPhase == Len(handling'.order) = Len(handling.order) + 1

\* C26: every phase value recorded during a handling is the time elapsed,
\* in whole milliseconds, since the handling began; so in the timer of a
\* handling that has returned, Total_Processing is at least as large as
\* every other recorded value.
C26_PhasesSinceHandlingBegan ==
    /\ [][RecordsPhase =>
            TimeOf(timings_'.operation_times, handling'.order[Len(handling'.order)])
                = (now - handling.began) \div TicksPerMs]_vars
    /\ [](handling.state = "returned" =>
            \A i \in DOMAIN timings_.operation_times :
                TimeOf(timings_.operation_times, "Total_Processing")
                    >= timings_.operation_times[i].time)

\* E took a millisecond for its local evaluation and less for the rest: it
\* reports Local_Processing as 1 ms and Total_Processing as 0 ms
C26_TotalBelowLocal ==
    /\ handling.state = "returned"
    /\ handling.node = "E"
    /\ handling.path = "local"
    /\ now - handling.began = TicksPerMs
    /\ TimeOf(timings_.operation_times, "Local_Processing") = 1
    /\ TimeOf(timings_.operation_times, "Total_Processing") = 0

\* the phases of a handling in the order of the per-query state machine
PhaseOrder ==
    <<"Cache_Access", "Local_Processing", "Downstream_Queries", "Cache_Storage",
      "Total_Processing">>

IsPhase(operation) == \E i \in DOMAIN PhaseOrder : PhaseOrder[i] = operation

PhaseRank(operation) == CHOOSE i \in DOMAIN PhaseOrder : PhaseOrder[i] = operation

\* the phase tags of the handling in the order in which endTiming recorded
\* them, without the tags of the single peer calls
PhasesRecorded == SelectSeq(handling.order, IsPhase)

\* C27: the phase tags of a handling that has returned were recorded in the
\* order of the per-query state machine: on a hit Cache_Access and then
\* Total_Processing; on a miss the tags recorded follow the order
\* Local_Processing, Downstream_Queries, Cache_Storage, with
\* Downstream_Queries recorded when the query was forwarded and not
\* otherwise, and Total_Processing is recorded last.
C27_PhasesInOrder ==
    handling.state = "returned" =>
        LET phases == PhasesRecorded
        IN  /\ phases # <<>>
            /\ phases[Len(phases)] = "Total_Processing"
            /\ \A i, j \in DOMAIN phases :
                   i < j => PhaseRank(phases[i]) < PhaseRank(phases[j])
            /\ handling.path = "hit" => phases = <<"Cache_Access", "Total_Processing">>
            /\ handling.path # "hit" =>
                   /\ \A i \in DOMAIN phases : phases[i] # "Cache_Access"
                   /\ (handling.path = "forward") <=>
                         (\E i \in DOMAIN phases : phases[i] = "Downstream_Queries")

\* the second definition of B's handleQuery answered a forwarded miss: it
\* recorded Total_Processing before Cache_Storage
C27_TotalBeforeCacheStorage ==
    /\ handling.state = "returned"
    /\ handling.shape = "B2"
    /\ handling.path = "forward"
    /\ PhasesRecorded = <<"Local_Processing", "Downstream_Queries", "Total_Processing",
                           "Cache_Storage">>

\* how many times addDownstreamTiming was called with the response of the peer
TimesAppended(peer) ==
    Cardinality({i \in DOMAIN handling.adds : handling.adds[i].peer = peer})

\* C28: when a handling that forwarded its query has returned, the timing
\* text of every peer that answered success = true with a non-empty text has
\* been appended to the timer's entry of the query exactly once, and nothing
\* has been appended for a peer whose RPC failed or that was not called.
C28_PeerTimingAppendedOnce ==
    (handling.state = "returned" /\ handling.path = "forward") =>
        \A i \in DOMAIN handling.peers :
            LET pr == handling.peers[i]
            IN  /\ pr.outcome = "ok" => TimesAppended(pr.peer) = 1
                /\ pr.outcome \in {"failed", "skipped"} => TimesAppended(pr.peer) = 0

\* B forwarded a query to a peer that answered with its timing text: the
\* text was appended by queryData and again by the handler's merge loop, and
\* the timing text B returns holds the peer's lines twice
C28_PeerTimingAppendedTwice ==
    /\ handling.state = "returned"
    /\ handling.shape = "B"
    /\ handling.path = "forward"
    /\ \E i \in DOMAIN handling.peers :
          /\ handling.peers[i].outcome = "ok"
          /\ \E j, k \in DOMAIN handling.adds :
                /\ j < k
                /\ handling.adds[j] = [peer |-> handling.peers[i].peer, by |-> "queryData"]
                /\ handling.adds[k] = [peer |-> handling.peers[i].peer, by |-> "handleQuery"]
          /\ Cardinality({l \in DOMAIN handling.timing_data :
                            handling.timing_data[l] = HeaderLine(handling.peers[i].peer)}) = 2

\* the mutexes the thread holds
HeldBy(th) == {mu \in Mutexes : locked[mu] = th}

\* C29: a handling that waits for the answer of a peer holds none of the
\* store's, the cache's and the timer's mutex; and every handling goes on
\* until it has returned or waits for its own peer, whatever the handling
\* with the other query id is waiting for.
C29_NoMutexAcrossRpc ==
    /\ [](\A th \in HandlerThreads : pool[th].inside = "rpc" => HeldBy(th) = {})
    /\ \A th \in HandlerThreads :
          (pool[th].state = "running") ~>
              (pool[th].state = "done" \/ pool[th].inside = "rpc")

\* h2 has gone through the store, the cache and the timer and has returned
\* while h1, with the other query id, was waiting for its peer, and h1 is
\* waiting still
C29_ReturnedWhileOtherWaits ==
    /\ pool["h1"].inside = "rpc"
    /\ pool["h2"].state = "done"
    /\ pool["h2"].path = "local"
    /\ pool["h2"].verb = "get_by_key"
    /\ pool["h2"].waiting = {"h1"}
    /\ pool["h1"].id # pool["h2"].id

\* C30: a thread that reads data_ for a query holds the store's mutex, and
\* no read of data_ overlaps a store() on the same store.
C30_ReadsHoldStoreMutex ==
    \A th \in HandlerThreads :
        pool[th].inside = "read" =>
            /\ locked["store"] = th
            /\ pool[WriterThread].inside # "write"

\* a get_by_borough query at the node that owns the borough: the handler is
\* in getByBorough's loop over data_ while store() holds the mutex and writes
C30_ReadDuringStore ==
    /\ pool["h1"].inside = "read"
    /\ pool["h1"].verb = "get_by_borough"
    /\ locked["store"] = WriterThread
    /\ pool[WriterThread].inside = "write"

----------------------------------------------------------------------------
(* The fabric over a configured overlay: every node connects to the peers
   its "connections" entry lists, whatever they are, and handleQuery fans a
   query out to every connected peer *)

\* the deepest chain of handleQuery calls that is followed
MaxDepth == 4

\* configurations: the one the repository describes; one in which C also
\* lists B; one in which D also lists itself
Overlays ==
    {Shipped,
     [Shipped EXCEPT !["C"] = {"E", "B"}],
     [Shipped EXCEPT !["D"] = {"E", "D"}]}

\* a verb every worker but E forwards, and one only the portal forwards
OverlayVerbs == {"get_all", "get_by_borough"}

Activation(n, verb) == [node |-> n, verb |-> verb, pc |-> "enter", pending |-> <<>>]

Innermost == calls[Len(calls)]

InLoop == calls # <<>> /\ Innermost.pc = "loop"

\* the return of the innermost handleQuery call to its caller
Returned == SubSeq(calls, 1, Len(calls) - 1)

besideOverlay == <<fabricVars, now, cacheVars, codecVars, queueVars, dataVars, timerVars,
                   lockVars>>

OverlayInit ==
    /\ overlay \in Overlays
    /\ calls = <<>>
    /\ cachedAt = {}
    /\ asked = 0
    /\ LockAtRest
    /\ FabricAtRest
    /\ now = 0
    /\ shmBuild = "shared_memory/shared_memory.cpp"
    /\ mappable = TRUE
    /\ RegionAtRest
    /\ codec = NoCodec
    /\ QueueAtRest
    /\ DataAtRest
    /\ TimerAtRest

\* the client sends a query to the portal
OverlaySubmit(verb) ==
    /\ calls = <<>>
    /\ asked < MaxQueries
    /\ calls' = <<Activation("A", verb)>>
    /\ asked' = asked + 1
    /\ UNCHANGED <<overlay, cachedAt>>
    /\ UNCHANGED besideOverlay

\* handleQuery: the key is in the node's cache, the cached result is returned
OverlayHit ==
    /\ calls # <<>>
    /\ Innermost.pc = "enter"
    /\ <<Innermost.node, Innermost.verb>> \in cachedAt
    /\ calls' = Returned
    /\ UNCHANGED <<overlay, cachedAt, asked>>
    /\ UNCHANGED besideOverlay

\* handleQuery: the key is not in the cache; the local evaluation, and the
\* entry into the loop over clients_, an unordered_map, in some order
OverlayMiss ==
    /\ calls # <<>>
    /\ Innermost.pc = "enter"
    /\ <<Innermost.node, Innermost.verb>> \notin cachedAt
    /\ \E peers \in SetToSeqs(overlay[Innermost.node]) :
          calls' = [calls EXCEPT ![Len(calls)] =
                      [@ EXCEPT !.pc = "loop",
                                !.pending =
                                    IF Forwards(Innermost.node, cBuild,
                                                [NoQuery EXCEPT !.verb = Innermost.verb])
                                    THEN peers ELSE <<>>]]
    /\ UNCHANGED <<overlay, cachedAt, asked>>
    /\ UNCHANGED besideOverlay

\* client->queryData(query): the peer's server calls its handleQuery
OverlayCall ==
    /\ InLoop
    /\ Innermost.pending # <<>>
    /\ Len(calls) < MaxDepth
    /\ calls' = Append([calls EXCEPT ![Len(calls)].pending = Tail(@)],
                       Activation(Head(Innermost.pending), Innermost.verb))
    /\ UNCHANGED <<overlay, cachedAt, asked>>
    /\ UNCHANGED besideOverlay

\* the peer is not connected, or the RPC fails
OverlaySkip ==
    /\ InLoop
    /\ Innermost.pending # <<>>
    /\ calls' = [calls EXCEPT ![Len(calls)].pending = Tail(@)]
    /\ UNCHANGED <<overlay, cachedAt, asked>>
    /\ UNCHANGED besideOverlay

\* the loop is over: the result is put into the cache and returned
OverlayReturn ==
    /\ InLoop
    /\ Innermost.pending = <<>>
    /\ cachedAt' = cachedAt \cup {<<Innermost.node, Innermost.verb>>}
    /\ calls' = Returned
    /\ UNCHANGED <<overlay, asked>>
    /\ UNCHANGED besideOverlay

OverlayNext ==
    \/ \E verb \in OverlayVerbs : OverlaySubmit(verb)
    \/ OverlayHit
    \/ OverlayMiss
    \/ OverlayCall
    \/ OverlaySkip
    \/ OverlayReturn

OverlaySpec == OverlayInit /\ [][OverlayNext]_vars

----------------------------------------------------------------------------
(* Claims C31..C39 *)

\* the crash entries of a store whose borough is b, letter case ignored
BoroughEntries(entries, b) ==
    {e \in entries : e.kind = "crash" /\ ToUpper(<<e.crash.borough>>) = ToUpper(b)}

\* C31: a get_by_borough(b) handled on the miss path by the worker that owns
\* b, in whatever letter case b is written, returns success with exactly the
\* crash entries of that worker's store whose borough is b, case ignored.
C31_OwnerAnswersAnyCase ==
    \A n \in Workers :
        (/\ Missed(n)
         /\ done[n].query.verb = "get_by_borough"
         /\ done[n].query.params # <<>>
         /\ Owner(ToUpper(done[n].query.params[1])) = n
         /\ writes = pre.writes)
        => /\ done[n].result.success
           /\ SeqToBag(done[n].result.results)
                = SetToBag(BoroughEntries(store[n], done[n].query.params[1]))

\* D, which holds a BRONX record, has answered get_by_borough ["bronx"] with
\* a success that carries no entry
C31_LowerCaseFindsNothing ==
    /\ Missed("D")
    /\ done["D"].query.verb = "get_by_borough"
    /\ done["D"].query.params = <<<<"bronx">>>>
    /\ {e.key : e \in BoroughEntries(store["D"], <<"bronx">>)} = {<<"kD">>}
    /\ done["D"].result.success
    /\ done["D"].result.results = <<>>
    /\ done["D"].result.message = <<"No ", "BRONX", " data requested">>

\* C32: the query id is kept end to end: every activation in the chain of
\* one client query handles the client's query, with its id, verb and params,
\* and the result a handler returns, on the hit and on the miss path, carries
\* the id of the query it answers.
C32_QueryIdPreserved ==
    /\ \A i \in DOMAIN stack : stack[i].query = stack[1].query
    /\ \A n \in Nodes :
          done[n].valid =>
              /\ done[n].query = (IF stack # <<>> THEN stack[1].query ELSE response.query)
              /\ done[n].result.query_id = done[n].query.id

\* D has answered query q1, a get_by_borough for its own borough, with a
\* result whose query_id is "borough_query"
C32_ResultNamesTheVerb ==
    /\ Missed("D")
    /\ done["D"].query.id = <<"q", "1">>
    /\ done["D"].query.verb = "get_by_borough"
    /\ done["D"].query.params = <<<<"BRONX">>>>
    /\ done["D"].sent = <<>>
    /\ done["D"].result.success
    /\ done["D"].result.query_id = <<"borough_query">>

\* C33: the local evaluation of a get_by_time query at a worker is an empty
\* success: success = true and no entry.
C33_GetByTimeEmptySuccess ==
    \A n \in Workers :
        (Missed(n) /\ done[n].query.verb = "get_by_time") =>
            /\ done[n].local.success
            /\ done[n].local.results = <<>>

\* E has evaluated a get_by_time query to the failure "Unknown query:
\* get_by_time" and has returned it
C33_GetByTimeUnknown ==
    /\ Missed("E")
    /\ done["E"].query.verb = "get_by_time"
    /\ done["E"].local = createFailure(done["E"].query.id, <<"Unknown query: ", "get_by_time">>)
    /\ done["E"].result = done["E"].local
    /\ ~done["E"].put

\* the entry's lifetime is over at clock reading t, as SharedCache::get tests it
Expired(entry, t) == entry.ttl > 0 /\ t > entry.timestamp + entry.ttl

\* the instance's call of get returns in this step
GetReturns(i) ==
    inst[i].state = "in" /\ inst[i].call.kind = "get" /\ inst'[i].state = "idle"

\* C34: a get that finds the entry of its key expired returns a miss and
\* deletes the record: when it has returned, the instance's map holds no
\* entry for the key and the image in the region holds no record of it.
C34_ExpiredEntryDeletedByGet ==
    [][\A i \in Insts :
          (/\ GetReturns(i)
           /\ inst[i].call.key \in DOMAIN inst[i].cache_map
           /\ Expired(inst[i].cache_map[inst[i].call.key], now))
          => /\ ~inst'[i].last.ret.ok
             /\ inst[i].call.key \notin DOMAIN inst'[i].cache_map
             /\ inst[i].call.key
                    \notin DOMAIN DeserializeFromMemory(region'[inst[i].place])]_vars

\* a get has found its key's entry expired and has returned a miss: the
\* entry is still in the map and its record still in the region's image
C34_ExpiredEntryKept ==
    \E i \in Insts :
        /\ inst[i].state = "idle"
        /\ inst[i].last.kind = "get"
        /\ ~inst[i].last.ret.ok
        /\ inst[i].last.mapKept
        /\ inst[i].last.imageKept
        /\ inst[i].last.key \in DOMAIN inst[i].cache_map
        /\ Expired(inst[i].cache_map[inst[i].last.key], inst[i].last.at)
        /\ inst[i].last.key \in DOMAIN DeserializeFromMemory(region[inst[i].place])

\* node n answers from its cache in this step
AnswersFromCache(n) == done'[n] # done[n] /\ done'[n].valid /\ done'[n].hit

\* C35: the step in which a node answers from its cache evaluates nothing,
\* calls no peer and writes nothing: the activation returns without a new
\* one having been started, the stores are as before, and every cache is as
\* before, the payload and the timestamp of the entry that was hit included.
C35_HitLeavesCacheAlone ==
    [][\A n \in Nodes :
          AnswersFromCache(n) =>
              /\ cache' = cache
              /\ store' = store
              /\ Len(stack') = Len(stack) - 1
              /\ done'[n].local = NoResult
              /\ done'[n].sent = <<>>
              /\ ~done'[n].put]_vars

\* B has answered from its cache later than the entry was put: the entry
\* has the timestamp of its put and the payload that was put
C35_HitLaterThanPut ==
    /\ done["B"].valid
    /\ done["B"].hit
    /\ done["B"].key \in DOMAIN cache["B"]
    /\ cache["B"][done["B"].key].timestamp < done["B"].began
    /\ cache["B"] = done["B"].before
    /\ cache["B"][done["B"].key].data = CachePayload("B", stored["B"][done["B"].key])
    /\ done["B"].sent = <<>>

\* the lines of a timing text that are the node's own: the operation lines
\* before the first text of a peer
OwnLines(timing_data) ==
    {j \in 2..Len(timing_data) : \A k \in 2..j : timing_data[k].kind = "operation"}

OwnOperations(timing_data) == {timing_data[j].text : j \in OwnLines(timing_data)}

\* the lines of a timing text that were appended from the answers of peers
PeerLines(timing_data) ==
    SubSeq(timing_data, 2 + Cardinality(OwnLines(timing_data)), Len(timing_data))

\* the timing texts of the peers whose answers were appended during the handling
AppendedDuringHandling ==
    Concat([i \in DOMAIN handling.adds |->
               LET pr == CHOOSE pr \in Range(handling.peers) : pr.peer = handling.adds[i].peer
               IN  PeerTiming(pr.peer, pr.outcome)])

\* C36: the timing text a handling returns lists only the operations
\* recorded during that handling and only the peer texts appended during
\* it, also when the node has handled the same query id before; on a cache
\* hit it lists exactly Cache_Access and Total_Processing.
C36_BlobOfThisHandlingOnly ==
    handling.state = "returned" =>
        /\ OwnOperations(handling.timing_data) = Range(handling.order)
        /\ PeerLines(handling.timing_data) = AppendedDuringHandling
        /\ handling.path = "hit" =>
               /\ OwnOperations(handling.timing_data) = {"Cache_Access", "Total_Processing"}
               /\ PeerLines(handling.timing_data) = <<>>

\* E evaluated a query and then answered the same query id from its cache:
\* the text of the hit lists Local_Processing and Cache_Storage of the
\* handling before
C36_HitListsEarlierPhases ==
    /\ handling.state = "returned"
    /\ handling.node = "E"
    /\ handling.nth = 2
    /\ handling.path = "hit"
    /\ handling.order = <<"Cache_Access", "Total_Processing">>
    /\ OwnOperations(handling.timing_data) =
           {"Cache_Access", "Total_Processing", "Local_Processing", "Cache_Storage"}

SameQuestion(q1, q2) == q1.verb = q2.verb /\ q1.params = q2.params

\* C37: a query and the query before it, when they differ in (verb, params),
\* have different cache keys at every node that handles them, and a node
\* that answers from its cache answers with a result that was put for the
\* same (verb, params).
C37_NeverAnothersCachedResult ==
    /\ \A n \in Nodes :
           (/\ done[n].valid
            /\ pre.prev.valid
            /\ ~SameQuestion(done[n].query, pre.prev.query))
           => done[n].key # CacheKey(n, cBuild, pre.prev.query)
    /\ \A n \in Nodes :
           (/\ done[n].valid
            /\ done[n].hit
            /\ pre.prev.valid
            /\ done[n].key \in DOMAIN stored[n]
            /\ stored[n][done[n].key].query_id = pre.prev.query.id)
           => SameQuestion(done[n].query, pre.prev.query)

\* E was asked get_by_key with the one parameter kE_kB after get_by_key with
\* the parameters kE and kB: both have the key query_get_by_key_kE_kB, and E
\* answered the second from its cache with the entry kE, though its store
\* has no entry of the key kE_kB
C37_OneParamServedTwoParamsResult ==
    /\ done["E"].valid
    /\ done["E"].hit
    /\ done["E"].query.params = <<<<"kE", "_", "kB">>>>
    /\ pre.prev.query.params = <<<<"kE">>, <<"kB">>>>
    /\ done["E"].key = <<"query_", "get_by_key", "_", "kE", "_", "kB">>
    /\ Keys(done["E"].result.results) = <<<<"kE">>>>
    /\ \A e \in store["E"] : e.key # <<"kE", "_", "kB">>

\* C38: for every configured overlay the handleQuery calls caused by one
\* client query are finitely many: the chain of calls that have not yet
\* returned never holds the same node twice, so it is never longer than
\* the number of nodes.
C38_ChainVisitsNodeOnce ==
    \A i, j \in DOMAIN calls : i # j => calls[i].node # calls[j].node

\* with C configured to connect to B as well, B's get_all has come back to
\* B through C with no cache written on the way: B is where it was when the
\* portal called it
C38_BackAtB ==
    /\ "B" \in overlay["C"]
    /\ Len(calls) = 4
    /\ [i \in 1..4 |-> calls[i].node] = <<"A", "B", "C", "B">>
    /\ calls[4] = Activation("B", "get_all")
    /\ cachedAt = {}

\* the message thread is at its lookup in clients_, or holds the iterator
\* the lookup gave it and has not yet made its call through it
ReadsClients == message_thread_ \in {"find", "send"}

\* C39: no step changes the portal's clients_ while the message thread is
\* looking a peer up in it or holds a stub taken from it: start() fills the
\* map before the thread's first lookup, and stop() clears it only after the
\* thread's last lookup and send.
C39_MapStableWhileWorkerReads ==
    [][clients_' # clients_ => ~ReadsClients]_vars

\* stop() has cleared clients_ while the message thread, having found the
\* stub of B, has its sendData call still to make
C39_ClearedUnderTheIterator ==
    /\ server_ = "stopped"
    /\ clients_ = {}
    /\ message_thread_ = "send"
    /\ msg.destination = "B"

====
